---- MODULE Spec2Model ----
(***************************************************************************)
(* Missa Kala: the today-section locator (extractTodaySection), the fish   *)
(* keyword scanner (searchForFish) and the detection orchestrator          *)
(* (findFishInText) of src/background.js, and the run of the background    *)
(* worker over the configured restaurants (checkAllRestaurantMenus,        *)
(* checkRestaurantMenu, fetchRenderedPageText).                            *)
(*                                                                         *)
(* Page text is a string; a character is a string of length 1.  Indices    *)
(* handed to the JavaScript-named operators (indexOf, substring) are       *)
(* 0-based as in the source; TLA+ sequence positions are 1-based.          *)
(***************************************************************************)
EXTENDS Integers, Sequences, FiniteSets, TLC

VARIABLES
  text,       \* the page text handed to the handler
  textType,   \* "string", or "null" / "undefined" when the handler gets no text
  clock,      \* the wall clock: the calendar day it shows
  today,      \* day-of-week read at background.js:277, -1 before any call
  todayDate,  \* calendar date read at background.js:294
  section,    \* SectionResult of the extractTodaySection call made by findFishInText
  sectionScan, \* findFishInText's scan of the located section
  pageScan,   \* findFishInText's scan of the full page
  result,     \* KeywordMatchResult of findFishInText
  pc,         \* "idle", then "done" once findFishInText has returned, "threw"
              \* once it has thrown
  history,    \* the findFishInText calls that have returned, in order: what each
              \* was given and what it returned
  \* the messages and the runs of checkAllRestaurantMenus they start; the run
  \* of the m-th 'checkMenus' message received is run m, and runPc, current,
  \* ..., rendered each hold one entry per run
  inbox,      \* the messages sent to the worker and not yet handed to its listener
  enabled,    \* RESTAURANTS[r].enabled, for r in 1..NumRestaurants
  runPc,      \* "idle", "loop" (at the head of the for loop), "checking"
              \* (awaiting checkRestaurantMenu), "returned"
  current,    \* the restaurant the for loop is at
  results,    \* the results array
  judged,     \* the day-of-week and date the findFishInText calls of the run read
  midnights,  \* how often the clock has passed midnight
  checkPc,    \* checkRestaurantMenu: "none", "fetching", "reading", "rendering"
  html,       \* checkRestaurantMenu's html: the body of the last response read
  staticResult, \* checkRestaurantMenu's staticResult, of the last body read
  \* fetchRenderedPageText
  renderPc,   \* "none", "creating", "loading", "delaying", "executing",
              \* "closing", "settled"
  tab,        \* the hidden tab: "none", "open", "closed"
  removeCalls, \* how often chrome.tabs.remove was invoked
  attempt,    \* the loop variable of fetchRenderedPageText
  lastText,   \* fetchRenderedPageText's lastText
  rendered,   \* how the fetchRenderedPageText call settles
  \* getDatePatternsForWindow called on its own
  dateWindow, \* the windowDays argument
  windowPatterns, \* the array returned, <<>> before the call
  \* waitForTabComplete called on its own
  waitPc,     \* "none" before the call, "waiting" while the promise is pending,
              \* then "resolved" or "rejected"
  listening,  \* onUpdated is registered with chrome.tabs.onUpdated
  timer,      \* the timeout: "none", "armed", "cleared", "fired"
  settleCalls, \* how often resolve or reject was called
  settledAt,   \* the ticks that had passed when the promise settled, -1 before
  elapsed,    \* the time since the call, in ticks
  updateLog   \* the tab updates so far, and whether onUpdated was run for each

callVars ==
  <<text, textType, today, todayDate, section, sectionScan, pageScan, result, pc, history>>
runVars == <<inbox, enabled, runPc, current, results, judged, midnights, checkPc, html, staticResult>>
renderVars == <<renderPc, tab, removeCalls, attempt, lastText, rendered>>
dateVars == <<dateWindow, windowPatterns>>
waitVars == <<waitPc, listening, timer, settleCalls, settledAt, elapsed, updateLog>>
vars == <<callVars, clock, runVars, renderVars, dateVars, waitVars>>

-----------------------------------------------------------------------------
(* JavaScript string primitives *)

CharAt(s, i) == SubSeq(s, i, i)

\* String.prototype.toLowerCase changes the upper-case letters of Unicode.
\* A string of this module holds the characters up to U+00FF but the grave
\* accent and, above, those of the basic plane whose code ends in 80..FF.
\* UpperChars holds every upper-case letter among them whose lower-case
\* letter is among them too, LowerChars the lower-case letter at the same
\* place.
UpperChars ==
  "ABCDEFGHIJKLMNOPQRSTUVWXYZÀÁÂÃÄÅÆÇÈÉÊËÌÍÎÏÐÑÒÓÔÕ"
  \o "ÖØÙÚÛÜÝÞƂƄƇƋƎƑƘƠƢƤƦƧƩƬƮƯƱƲƳƵƷƸƼǄǅǇǈǊǋǍǏǑǓǕǗǙǛǞǠǢ"
  \o "ǤǦǨǪǬǮǱǲǴǶǷǸǺǼǾΆΈΉΊΌΎΏΑΒΓΔΕΖΗΘΙΚΛΜΝΞΟΠΡΣΤΥΦΧΨΩΪΫ"
  \o "ϏϘϚϜϞϠϢϤϦϨϪϬϮϴϷϹϺҀҊҌҎҐҒҔҖҘҚҜҞҠҢҤҦҨҪҬҮҰҲҴҶҸҺҼҾӀӁӃ"
  \o "ӅӇӉӋӍӐӒӔӖӘӚӜӞӠӢӤӦӨӪӬӮӰӲӴӶӸӺӼӾᎰᎱᎲᎳᎴᎵᎶᎷᎸᎹᎺᎻᎼᎽᎾᎿᏀᏁᏂ"
  \o "ᏃᏄᏅᏆᏇᏈᏉᏊᏋᏌᏍᏎᏏᏐᏑᏒᏓᏔᏕᏖᏗᏘᏙᏚᏛᏜᏝᏞᏟᏠᏡᏢᏣᏤᏥᏦᏧᏨᏩᏪᏫᏬᏭᏮᏯᏰᏱᏲ"
  \o "ᏳᏴᏵᲉᲐᲑᲒᲓᲔᲕᲖᲗᲘᲙᲚᲛᲜᲝᲞᲟᲠᲡᲢᲣᲤᲥᲦᲧᲨᲩᲪᲫᲬᲭᲮᲯᲰᲱᲲᲳᲴᲵᲶᲷᲸᲹᲺᲽ"
  \o "ᲾᲿẀẂẄẆẈẊẌẎẐẒẔẞẠẢẤẦẨẪẬẮẰẲẴẶẸẺẼẾỀỂỄỆỈỊỌỎỐỒỔỖỘỚỜỞỠỢ"
  \o "ỤỦỨỪỬỮỰỲỴỶỸỺỼỾᾈᾉᾊᾋᾌᾍᾎᾏᾘᾙᾚᾛᾜᾝᾞᾟᾨᾩᾪᾫᾬᾭᾮᾯᾸᾹᾼῌῘῙῨῩῬῼ"
  \o "ↃⒶⒷⒸⒹⒺⒻⒼⒽⒾⒿⓀⓁⓂⓃⓄⓅⓆⓇⓈⓉⓊⓋⓌⓍⓎⓏⲀⲂⲄⲆⲈⲊⲌⲎⲐⲒⲔⲖⲘⲚⲜⲞⲠⲢⲤⲦⲨ"
  \o "ⲪⲬⲮⲰⲲⲴⲶⲸⲺⲼⲾⳀⳂⳄⳆⳈⳊⳌⳎⳐⳒⳔⳖⳘⳚⳜⳞⳠⳢⳫⳭⳲꚀꚂꚄꚆꚈꚊꚌꚎꚐꚒꚔꚖꚘꚚꞀꞂ"
  \o "ꞄꞆꞋꞐꞒꞖꞘꞚꞜꞞꞠꞢꞤꞦꞨꞰꞱꞲꞴꞶꞸꞺꞼꞾꟀꟂꟄꟅꟆꟇꟉꟌ꟎Ꟑ꟒꟔ꟖꟘꟚꟜꟵ"
LowerChars ==
  "abcdefghijklmnopqrstuvwxyzàáâãäåæçèéêëìíîïðñòóôõ"
  \o "öøùúûüýþƃƅƈƌǝƒƙơƣƥʀƨʃƭʈưʊʋƴƶʒƹƽǆǆǉǉǌǌǎǐǒǔǖǘǚǜǟǡǣ"
  \o "ǥǧǩǫǭǯǳǳǵƕƿǹǻǽǿάέήίόύώαβγδεζηθικλμνξοπρστυφχψωϊϋ"
  \o "ϗϙϛϝϟϡϣϥϧϩϫϭϯθϸϲϻҁҋҍҏґғҕҗҙқҝҟҡңҥҧҩҫҭүұҳҵҷҹһҽҿӏӂӄ"
  \o "ӆӈӊӌӎӑӓӕӗәӛӝӟӡӣӥӧөӫӭӯӱӳӵӷӹӻӽӿꮀꮁꮂꮃꮄꮅꮆꮇꮈꮉꮊꮋꮌꮍꮎꮏꮐꮑꮒ"
  \o "ꮓꮔꮕꮖꮗꮘꮙꮚꮛꮜꮝꮞꮟꮠꮡꮢꮣꮤꮥꮦꮧꮨꮩꮪꮫꮬꮭꮮꮯꮰꮱꮲꮳꮴꮵꮶꮷꮸꮹꮺꮻꮼꮽꮾꮿᏸᏹᏺ"
  \o "ᏻᏼᏽᲊაბგდევზთიკლმნოპჟრსტუფქღყშჩცძწჭხჯჰჱჲჳჴჵჶჷჸჹჺჽ"
  \o "ჾჿẁẃẅẇẉẋẍẏẑẓẕßạảấầẩẫậắằẳẵặẹẻẽếềểễệỉịọỏốồổỗộớờởỡợ"
  \o "ụủứừửữựỳỵỷỹỻỽỿᾀᾁᾂᾃᾄᾅᾆᾇᾐᾑᾒᾓᾔᾕᾖᾗᾠᾡᾢᾣᾤᾥᾦᾧᾰᾱᾳῃῐῑῠῡῥῳ"
  \o "ↄⓐⓑⓒⓓⓔⓕⓖⓗⓘⓙⓚⓛⓜⓝⓞⓟⓠⓡⓢⓣⓤⓥⓦⓧⓨⓩⲁⲃⲅⲇⲉⲋⲍⲏⲑⲓⲕⲗⲙⲛⲝⲟⲡⲣⲥⲧⲩ"
  \o "ⲫⲭⲯⲱⲳⲵⲷⲹⲻⲽⲿⳁⳃⳅⳇⳉⳋⳍⳏⳑⳓⳕⳗⳙⳛⳝⳟⳡⳣⳬⳮⳳꚁꚃꚅꚇꚉꚋꚍꚏꚑꚓꚕꚗꚙꚛꞁꞃ"
  \o "ꞅꞇꞌꞑꞓꞗꞙꞛꞝꞟꞡꞣꞥꞧꞩʞʇʝꞵꞷꞹꞻꞽꞿꟁꟃꞔʂᶎꟈꟊꟍ꟏ꟑꟓꟕꟗꟙꟛƛꟶ"

\* the other upper-case letters a string of this module can hold: the lower
\* case of each (U+0253 for U+0181, U+2D00 for U+10A0, ...) is a character
\* that no string of this module can hold
UpperCharsBeyond ==
  "ƁƆƉƊƏƐƓƔƖƗƜƝƟϽϾϿႠႡႢႣႤႥႦႧႨႩႪႫႬႭႮႯႰႱႲႳႴႵႶႷႸႹႺႻႼႽႾႿ"
  \o "ჀჁჂჃჄჅჇჍᎠᎡᎢᎣᎤᎥᎦᎧᎨᎩᎪᎫᎬᎭᎮᎯᾺΆῈΈῊΉῚΊῪΎῸΌῺΏꞍꞪꞫꞬꞭꞮꞳꟋ"
WordChars == "abcdefghijklmnopqrstuvwxyzABCDEFGHIJKLMNOPQRSTUVWXYZ0123456789_"
DigitChars == "0123456789"
AsciiLower == "abcdefghijklmnopqrstuvwxyz"

CharSet(chars) == {CharAt(chars, i) : i \in 1..Len(chars)}
\* the letters toLowerCase changes
UpperSet == CharSet(UpperChars) \cup CharSet(UpperCharsBeyond)
WordSet == CharSet(WordChars)
DigitSet == CharSet(DigitChars)
AsciiLowerSet == CharSet(AsciiLower)

\* the lower-case letter of every upper-case letter that has one here: a
\* letter of UpperCharsBeyond is outside the domain, its lower case is no
\* value of this module
LowerOf ==
  [c \in CharSet(UpperChars) |->
     CharAt(LowerChars, CHOOSE i \in 1..Len(UpperChars) : CharAt(UpperChars, i) = c)]

\* the lower case of a one-character string; of a letter of UpperCharsBeyond
\* it is not defined
LowerChar(c) == IF c \in UpperSet THEN LowerOf[c] ELSE c

\* the cased letters and the case-ignorable characters of Unicode that a
\* string of this module can hold (the grave accent is case-ignorable and
\* is not among them): what Final_Sigma looks at
CasedChars ==
  "ABCDEFGHIJKLMNOPQRSTUVWXYZabcdefghijklmnopqrstuv"
  \o "wxyzªµºÀÁÂÃÄÅÆÇÈÉÊËÌÍÎÏÐÑÒÓÔÕÖØÙÚÛÜÝÞßàáâãäåæçèé"
  \o "êëìíîïðñòóôõöøùúûüýþÿƀƁƂƃƄƅƆƇƈƉƊƋƌƍƎƏƐƑƒƓƔƕƖƗƘƙƚ"
  \o "ƛƜƝƞƟƠơƢƣƤƥƦƧƨƩƪƫƬƭƮƯưƱƲƳƴƵƶƷƸƹƺƼƽƾƿǄǅǆǇǈǉǊǋǌǍǎǏ"
  \o "ǐǑǒǓǔǕǖǗǘǙǚǛǜǝǞǟǠǡǢǣǤǥǦǧǨǩǪǫǬǭǮǯǰǱǲǳǴǵǶǷǸǹǺǻǼǽǾǿ"
  \o "ʀʁʂʃʄʅʆʇʈʉʊʋʌʍʎʏʐʑʒʓʖʗʘʙʚʛʜʝʞʟʠʡʢʣʤʥʦʧʨʩʪʫʬʭʮʯΆΈ"
  \o "ΉΊΌΎΏΐΑΒΓΔΕΖΗΘΙΚΛΜΝΞΟΠΡΣΤΥΦΧΨΩΪΫάέήίΰαβγδεζηθικλ"
  \o "μνξοπρςστυφχψωϊϋόύώϏϐϑϒϓϔϕϖϗϘϙϚϛϜϝϞϟϠϡϢϣϤϥϦϧϨϩϪϫ"
  \o "ϬϭϮϯϰϱϲϳϴϵϷϸϹϺϻϼϽϾϿҀҁҊҋҌҍҎҏҐґҒғҔҕҖҗҘҙҚқҜҝҞҟҠҡҢңҤ"
  \o "ҥҦҧҨҩҪҫҬҭҮүҰұҲҳҴҵҶҷҸҹҺһҼҽҾҿӀӁӂӃӄӅӆӇӈӉӊӋӌӍӎӏӐӑӒӓӔ"
  \o "ӕӖӗӘәӚӛӜӝӞӟӠӡӢӣӤӥӦӧӨөӪӫӬӭӮӯӰӱӲӳӴӵӶӷӸӹӺӻӼӽӾӿրցւփք"
  \o "օֆևֈႠႡႢႣႤႥႦႧႨႩႪႫႬႭႮႯႰႱႲႳႴႵႶႷႸႹႺႻႼႽႾႿჀჁჂჃჄჅჇჍაბგდ"
  \o "ევზთიკლმნოპჟრსტუფქღყშჩცძწჭხჯჰჱჲჳჴჵჶჷჸჹჺჽჾჿᎠᎡᎢᎣᎤᎥ"
  \o "ᎦᎧᎨᎩᎪᎫᎬᎭᎮᎯᎰᎱᎲᎳᎴᎵᎶᎷᎸᎹᎺᎻᎼᎽᎾᎿᏀᏁᏂᏃᏄᏅᏆᏇᏈᏉᏊᏋᏌᏍᏎᏏᏐᏑᏒᏓᏔᏕ"
  \o "ᏖᏗᏘᏙᏚᏛᏜᏝᏞᏟᏠᏡᏢᏣᏤᏥᏦᏧᏨᏩᏪᏫᏬᏭᏮᏯᏰᏱᏲᏳᏴᏵᏸᏹᏺᏻᏼᏽᲀᲁᲂᲃᲄᲅᲆᲇᲈᲉ"
  \o "ᲊᲐᲑᲒᲓᲔᲕᲖᲗᲘᲙᲚᲛᲜᲝᲞᲟᲠᲡᲢᲣᲤᲥᲦᲧᲨᲩᲪᲫᲬᲭᲮᲯᲰᲱᲲᲳᲴᲵᲶᲷᲸᲹᲺᲽᲾᲿᶀ"
  \o "ᶁᶂᶃᶄᶅᶆᶇᶈᶉᶊᶋᶌᶍᶎᶏᶐᶑᶒᶓᶔᶕᶖᶗᶘᶙᶚẀẁẂẃẄẅẆẇẈẉẊẋẌẍẎẏẐẑẒẓẔẕ"
  \o "ẖẗẘẙẚẛẜẝẞẟẠạẢảẤấẦầẨẩẪẫẬậẮắẰằẲẳẴẵẶặẸẹẺẻẼẽẾếỀềỂểỄễ"
  \o "ỆệỈỉỊịỌọỎỏỐốỒồỔổỖỗỘộỚớỜờỞởỠỡỢợỤụỦủỨứỪừỬửỮữỰựỲỳỴỵ"
  \o "ỶỷỸỹỺỻỼỽỾỿᾀᾁᾂᾃᾄᾅᾆᾇᾈᾉᾊᾋᾌᾍᾎᾏᾐᾑᾒᾓᾔᾕᾖᾗᾘᾙᾚᾛᾜᾝᾞᾟᾠᾡᾢᾣᾤᾥ"
  \o "ᾦᾧᾨᾩᾪᾫᾬᾭᾮᾯᾰᾱᾲᾳᾴᾶᾷᾸᾹᾺΆᾼιῂῃῄῆῇῈΈῊΉῌῐῑῒΐῖῗῘῙῚΊῠῡῢΰῤ"
  \o "ῥῦῧῨῩῪΎῬῲῳῴῶῷῸΌῺΏῼↃↄⒶⒷⒸⒹⒺⒻⒼⒽⒾⒿⓀⓁⓂⓃⓄⓅⓆⓇⓈⓉⓊⓋⓌⓍⓎⓏⓐⓑ"
  \o "ⓒⓓⓔⓕⓖⓗⓘⓙⓚⓛⓜⓝⓞⓟⓠⓡⓢⓣⓤⓥⓦⓧⓨⓩⲀⲁⲂⲃⲄⲅⲆⲇⲈⲉⲊⲋⲌⲍⲎⲏⲐⲑⲒⲓⲔⲕⲖⲗ"
  \o "ⲘⲙⲚⲛⲜⲝⲞⲟⲠⲡⲢⲣⲤⲥⲦⲧⲨⲩⲪⲫⲬⲭⲮⲯⲰⲱⲲⲳⲴⲵⲶⲷⲸⲹⲺⲻⲼⲽⲾⲿⳀⳁⳂⳃⳄⳅⳆⳇ"
  \o "ⳈⳉⳊⳋⳌⳍⳎⳏⳐⳑⳒⳓⳔⳕⳖⳗⳘⳙⳚⳛⳜⳝⳞⳟⳠⳡⳢⳣⳤⳫⳬⳭⳮⳲⳳꚀꚁꚂꚃꚄꚅꚆꚇꚈꚉꚊꚋꚌ"
  \o "ꚍꚎꚏꚐꚑꚒꚓꚔꚕꚖꚗꚘꚙꚚꚛꞀꞁꞂꞃꞄꞅꞆꞇꞋꞌꞍꞎꞐꞑꞒꞓꞔꞕꞖꞗꞘꞙꞚꞛꞜꞝꞞꞟꞠꞡꞢꞣꞤ"
  \o "ꞥꞦꞧꞨꞩꞪꞫꞬꞭꞮꞯꞰꞱꞲꞳꞴꞵꞶꞷꞸꞹꞺꞻꞼꞽꞾꞿꟀꟁꟂꟃꟄꟅꟆꟇꟈꟉꟊꟋꟌꟍ꟎꟏Ꟑꟑ꟒ꟓ꟔"
  \o "ꟕꟖꟗꟘꟙꟚꟛꟜꟵꟶꟺꮀꮁꮂꮃꮄꮅꮆꮇꮈꮉꮊꮋꮌꮍꮎꮏꮐꮑꮒꮓꮔꮕꮖꮗꮘꮙꮚꮛꮜꮝꮞꮟꮠꮡꮢꮣꮤ"
  \o "ꮥꮦꮧꮨꮩꮪꮫꮬꮭꮮꮯꮰꮱꮲꮳꮴꮵꮶꮷꮸꮹꮺꮻꮼꮽꮾꮿ"
IgnorableChars ==
  "'.:^¨­¯´·¸ʰʱʲʳʴʵʶʷʸʹʺʻʼʽʾʿˀˁ˂˃˄˅ˆˇˈˉˊˋˌˍˎˏːˑ˒˓˔˕"
  \o "˖˗˘˙˚˛˜˝˞˟ˠˡˢˣˤ˥˦˧˨˩˪˫ˬ˭ˮ˯˰˱˲˳˴˵˶˷˸˹˺˻˼˽˾˿΄΅·҃҄҅"
  \o "҆҇҈҉ְֱֲֳִֵֶַָֹֺֻּ֑֖֛֢֣֤֥֦֧֪֚֭֮֒֓֔֕֗֘֙֜֝֞֟֠֡֨֩֫֬֯"
  \o "ׇֽֿׁׂׅׄ״ۖۗۘۙۚۛۜ۝ۣ۟۠ۡۢۤۥۦ۪ۭۧۨ۫۬ަާިީުޫެޭޮޯް߫߬߭߮߯߰߱"
  \o "߲߳ߴߵߺ߽࢈࢐࢑࢙࢚࢛ࢗ࢘࢜࢝࢞࢟ࣉ࣏࣐࣑࣒࣓࣊࣋࣌࣍࣎ࣔࣕࣖࣗࣘࣙࣚࣛࣜࣝࣞࣟ࣠࣡࣢ࣣࣦࣤࣥ"
  \o "ࣰࣱࣲࣩ࣭࣮࣯ࣶࣹࣺࣧࣨ࣪࣫࣬ࣳࣴࣵࣷࣸࣻࣼࣽࣾࣿঁ়ুূৃৄ্ৢৣ৾ઁં઼ુૂૃૄૅેૈ્ૢૣ"
  \o "ૺૻૼ૽૾૿ஂீ்ಁ಼ಿೆೌ್ೢೣඁ්ිීුූັິີຶື຺ຸູົຼໆ່້໊໋໌ໍ໎྄ཱྀྀྂྃ྆྇"
  \o "ྍྎྏྐྑྒྒྷྔྕྖྗྙྚྛྜྜྷྞྟྠྡྡྷྣྤྥྦྦྷྨྩྪྫྫྷྭྮྯྰྱྲླྴྵྶྷྸྐྵྺྻྼ࿆"
  \o "ႂႅႆႍႝჼ឴឵ិីឹឺុូួំ៉៊់៌៍៎៏័៑្៓ៗ៝ᢅᢆᢩᪧ᪵᪶᪷᪸᪹᪺᪽᪰᪱᪲᪳᪴᪻᪼᪾"
  \o "ᪿᫀ᫃᫄᫊᫁᫂᫅᫆᫇᫈᫉᫋ᫌᫍᫎ᫏᫐᫑᫒᫓᫔᫕᫖᫗᫘᫙᫚᫛᫜᫝᫠᫡᫢᫣᫤᫥᫦᫧᫨᫩᫪᫫ᮀᮁᮢᮣᮤ"
  \o "ᮥᮨᮩ᮫ᮬᮭ᯦ᯨᯩᯭᯯᯰᯱ᳔᳢᳣᳤᳥᳦᳧᳨᳕᳖᳗᳘᳙᳜᳝᳞᳟᳭᳐᳑᳒᳚᳛᳠᳴᳸᳹ᶛᶜᶝᶞᶟᶠᶡᶢ"
  \o "ᶣᶤᶥᶦᶧᶨᶩᶪᶫᶬᶭᶮᶯᶰᶱᶲᶳᶴᶵᶶᶷᶸᶹᶺᶻᶼᶽᶾᶿ᷐᷎᷂᷊᷏᷀᷁᷃᷄᷅᷆᷇᷈᷉᷋᷌᷑᷒᷍"
  \o "᷺᷹᷽᷿᷷᷸ᷓᷔᷕᷖᷗᷘᷙᷚᷛᷜᷝᷞᷟᷠᷡᷢᷣᷤᷥᷦᷧᷨᷩᷪᷫᷬᷭᷮᷯᷰᷱᷲᷳᷴ᷵᷻᷾᷶᷼᾽᾿῀"
  \o "῁῍῎῏῝῞῟῭΅`´῾ₐₑₒₓₔₕₖₗₘₙₚₛₜ⃒⃓⃘⃙⃚⃐⃑⃔⃕⃖⃗⃛⃜⃝⃞⃟⃠⃡⃢⃣⃤⃥⃦"
  \o "⃪⃫゙゚⃨⃬⃭⃮⃯⃧⃩⃰⳯⳰⳱ⷠⷡⷢⷣⷤⷥⷦⷧⷨⷩⷪⷫⷬⷭⷮⷯⷰⷱⷲⷳⷴⷵⷶⷷⷸⷹⷺⷻⷼⷽⷾⷿ゛"
  \o "゜ゝゞーヽヾꓸꓹꓺꓻꓼꓽꚜꚝꚞꚟ꛰꛱ꞈ꞉꞊꟱ꟲꟳꟴꟸꟹ꣄ꣅ꣠꣡꣢꣣꣤꣥꣦꣧꣨꣩꣪꣫꣬꣭꣮꣯꣰꣱ꣿ"
  \o "ꦀꦁꦂ꦳ꦶꦷꦸꦹꦼꦽꧏꧥꧦꪴꪰꪲꪳꪷꪸꪾ꪿꫁ꫝꫬꫭꫳꫴ꫶ꯥꯨ꯭﮲﮳﮴﮵﮶﮷﮸﮹﮺﮻﮼﮽﮾﮿﯀﯁﯂"
  \o "﻿ﾞﾟ￣￹￺￻"

\* Final_Sigma, the one condition of toLowerCase that looks around a letter:
\* with the case-ignorable characters skipped, a cased letter comes before
\* the character at p and none comes after it
FinalSigma(s, p) ==
  LET Skipped == CharSet(IgnorableChars)
      Cased == CharSet(CasedChars)
      before == {q \in 1..(p - 1) : CharAt(s, q) \notin Skipped}
      after == {q \in (p + 1)..Len(s) : CharAt(s, q) \notin Skipped}
  IN  /\ before # {}
      /\ CharAt(s, CHOOSE q \in before : \A r \in before : r <= q) \in Cased
      /\ \/ after = {}
         \/ CharAt(s, CHOOSE q \in after : \A r \in after : q <= r) \notin Cased

\* the characters lo..hi of s.toLowerCase() (halving keeps the recursion
\* shallow): a capital sigma in final position becomes the final sigma
RECURSIVE LowerRange(_, _, _)
LowerRange(s, lo, hi) ==
  IF lo > hi THEN ""
  ELSE IF lo = hi
    THEN IF CharAt(s, lo) = "Σ" /\ FinalSigma(s, lo)
           THEN "ς"
           ELSE LowerChar(CharAt(s, lo))
  ELSE LET mid == (lo + hi) \div 2
       IN  LowerRange(s, lo, mid) \o LowerRange(s, mid + 1, hi)

toLowerCase(s) == LowerRange(s, 1, Len(s))

\* WhiteSpace and LineTerminator of ECMAScript, as String.prototype.trim and
\* the class \s of RegExp take them: tab, line feed, vertical tab, form feed,
\* carriage return, blank, no-break space (U+00A0), U+1680 and U+FEFF.  The
\* spaces U+2000..U+200A, U+2028, U+2029, U+202F, U+205F and U+3000 belong to
\* the class too; a string of this module cannot hold them, and no page of
\* the model does.
WhiteSpace == {" ", "\t", "\n", "\r", "\f", "", " ", " ", "﻿"}
IsSpace(c) == c \in WhiteSpace

RECURSIVE trimStart(_)
trimStart(s) ==
  IF Len(s) > 0 /\ IsSpace(CharAt(s, 1)) THEN trimStart(SubSeq(s, 2, Len(s))) ELSE s

RECURSIVE trimEnd(_)
trimEnd(s) ==
  IF Len(s) > 0 /\ IsSpace(CharAt(s, Len(s))) THEN trimEnd(SubSeq(s, 1, Len(s) - 1)) ELSE s

trim(s) == trimEnd(trimStart(s))

\* s has pat at 1-based position p
MatchAt(s, pat, p) == p >= 1 /\ p + Len(pat) - 1 <= Len(s) /\ SubSeq(s, p, p + Len(pat) - 1) = pat

includes(s, pat) == \E p \in 1..(Len(s) - Len(pat) + 1) : MatchAt(s, pat, p)

Min(S) == CHOOSE x \in S : \A y \in S : x <= y
Max(S) == CHOOSE x \in S : \A y \in S : x >= y

\* String.prototype.indexOf: 0-based index of the first occurrence, -1 if none
indexOf(s, pat) ==
  LET hits == {p \in 1..(Len(s) - Len(pat) + 1) : MatchAt(s, pat, p)}
  IN  IF hits = {} THEN -1 ELSE Min(hits) - 1

\* String.prototype.substring(start, end) for 0 <= start <= end <= length
substring(s, start, end) == SubSeq(s, start + 1, end)

\* String.prototype.split('\n')
RECURSIVE splitLines(_)
splitLines(s) ==
  LET k == indexOf(s, "\n")
  IN  IF k = -1 THEN <<s>>
      ELSE <<substring(s, 0, k)>> \o splitLines(substring(s, k + 1, Len(s)))

\* Array.prototype.join('\n')
RECURSIVE joinLines(_)
joinLines(ls) ==
  IF Len(ls) = 0 THEN ""
  ELSE IF Len(ls) = 1 THEN ls[1]
  ELSE ls[1] \o "\n" \o joinLines(Tail(ls))

\* the regular expression assertion \b between the characters p and p+1 of s
IsWordAt(s, p) == p >= 1 /\ p <= Len(s) /\ CharAt(s, p) \in WordSet
WordBoundary(s, p) == IsWordAt(s, p) # IsWordAt(s, p + 1)

-----------------------------------------------------------------------------
(* Dates: a calendar day is [year, month, day] with month in 1..12 *)

IsLeap(y) == (y % 4 = 0 /\ y % 100 # 0) \/ y % 400 = 0

DaysInMonth(y, m) ==
  IF m = 2 THEN (IF IsLeap(y) THEN 29 ELSE 28)
  ELSE IF m \in {4, 6, 9, 11} THEN 30 ELSE 31

\* Date normalisation as done by Date.prototype.setDate for an out-of-range day
RECURSIVE NormDate(_, _, _)
NormDate(y, m, d) ==
  IF d < 1 THEN
    (IF m = 1 THEN NormDate(y - 1, 12, d + 31)
     ELSE NormDate(y, m - 1, d + DaysInMonth(y, m - 1)))
  ELSE IF d > DaysInMonth(y, m) THEN
    (IF m = 12 THEN NormDate(y + 1, 1, d - 31)
     ELSE NormDate(y, m + 1, d - DaysInMonth(y, m)))
  ELSE [year |-> y, month |-> m, day |-> d]

\* const d = new Date(date); d.setDate(date.getDate() + offset)
AddDays(date, offset) == NormDate(date.year, date.month, date.day + offset)

\* days since 1970-01-01 (a Thursday) of a civil date
DaysFromCivil(date) ==
  LET y   == IF date.month <= 2 THEN date.year - 1 ELSE date.year
      era == y \div 400
      yoe == y - era * 400
      mp  == (date.month + 9) % 12
      doy == (153 * mp + 2) \div 5 + date.day - 1
      doe == yoe * 365 + yoe \div 4 - yoe \div 100 + doy
  IN  era * 146097 + doe - 719468

\* Date.prototype.getDay: 0 = Sunday .. 6 = Saturday
getDay(date) == (DaysFromCivil(date) + 4) % 7

\* String(n) for n >= 0
RECURSIVE NumToStr(_)
NumToStr(n) ==
  IF n < 10 THEN CharAt(DigitChars, n + 1)
  ELSE NumToStr(n \div 10) \o CharAt(DigitChars, (n % 10) + 1)

\* String(n).padStart(2, '0')
Pad2(n) == IF n < 10 THEN "0" \o NumToStr(n) ELSE NumToStr(n)

getDatePatterns(date) ==
  LET day == date.day
      month == date.month
      year == NumToStr(date.year)
      d == NumToStr(day)
      m == NumToStr(month)
      dd == Pad2(day)
      mm == Pad2(month)
  IN  << year \o "-" \o mm \o "-" \o dd,
         dd \o "." \o mm \o "." \o year,
         d \o "." \o m \o "." \o year,
         dd \o "/" \o mm \o "/" \o year,
         d \o "/" \o m \o "/" \o year,
         dd \o "." \o mm,
         d \o "." \o m,
         dd \o "." \o mm \o ".",
         d \o "." \o m \o ".",
         dd \o "/" \o mm,
         d \o "/" \o m >>

InSeq(x, seq) == \E i \in 1..Len(seq) : seq[i] = x

\* Faulty variant of AddAll: an array push where the code adds to a Set
AppendAll(acc, seq) == acc \o seq

\* patterns.add(pattern) for each element: insertion order, no duplicates
AddAll(acc, seq) ==
  LET isNew(i) == ~InSeq(seq[i], acc) /\ \A j \in 1..(i - 1) : seq[j] # seq[i]
      new == {i \in 1..Len(seq) : isNew(i)}
      nth(k) == CHOOSE i \in new : Cardinality({j \in new : j < i}) = k - 1
  IN  acc \o [k \in 1..Cardinality(new) |-> seq[nth(k)]]

RECURSIVE WindowFrom(_, _, _, _)
WindowFrom(date, offset, windowDays, acc) ==
  IF offset > windowDays THEN acc
  ELSE WindowFrom(date, offset + 1, windowDays,
                  AddAll(acc, getDatePatterns(AddDays(date, offset))))

\* Faulty variant of getDatePatternsForWindow: the patterns of the exact date only
getDatePatternsExactDay(date, windowDays) == getDatePatterns(date)

getDatePatternsForWindow(date, windowDays) ==
  WindowFrom(date, 0 - windowDays, windowDays, <<>>)

-----------------------------------------------------------------------------
(* Today-Section Locator *)

dayPatterns ==
  [d \in 0..6 |->
     CASE d = 0 -> <<"sunday", "sunnuntai", "söndag", "sonntag", "su", "sun">>
       [] d = 1 -> <<"monday", "maanantai", "måndag", "montag", "ma", "mon">>
       [] d = 2 -> <<"tuesday", "tiistai", "tisdag", "dienstag", "ti", "tue">>
       [] d = 3 -> <<"wednesday", "keskiviikko", "onsdag", "mittwoch", "ke", "wed">>
       [] d = 4 -> <<"thursday", "torstai", "torsdag", "donnerstag", "to", "thu">>
       [] d = 5 -> <<"friday", "perjantai", "fredag", "freitag", "pe", "fri">>
       [] d = 6 -> <<"saturday", "lauantai", "lördag", "samstag", "la", "sat">>]

\* Object.values(dayPatterns).flat()
allDayPatterns ==
  dayPatterns[0] \o dayPatterns[1] \o dayPatterns[2] \o dayPatterns[3] \o
  dayPatterns[4] \o dayPatterns[5] \o dayPatterns[6]

\* the safety cap of the section loops: at most this many lines follow the header
SectionCap == 30
\* characters kept before and after the anchor of a character window
WindowBefore == 50
WindowAfter == 800
\* days on either side of today whose date strings are accepted
DateWindowDays == 1

\* /\bPATTERN\.?\b/ matches s at 1-based position p
ShortPatternAt(s, pattern, p) ==
  /\ MatchAt(s, pattern, p)
  /\ WordBoundary(s, p - 1)
  /\ \/ WordBoundary(s, p + Len(pattern) - 1)
     \/ /\ CharAt(s, p + Len(pattern)) = "."
        /\ WordBoundary(s, p + Len(pattern))

\* /\bPATTERN\b/ matches s at 1-based position p
WordPatternAt(s, pattern, p) ==
  /\ MatchAt(s, pattern, p)
  /\ WordBoundary(s, p - 1)
  /\ WordBoundary(s, p + Len(pattern) - 1)

lineHasDayPattern(line, pattern) ==
  IF Len(pattern) <= 3
    THEN \E p \in 1..Len(line) : ShortPatternAt(line, pattern, p)
    ELSE includes(line, pattern)

\* patterns.some(pattern => lineHasDayPattern(line, pattern))
HasAnyDayPattern(line, patterns) ==
  \E k \in 1..Len(patterns) : lineHasDayPattern(line, patterns[k])

\* 0-based index of the first regex match of one pattern in text, -1 if none
PatternIndex(lowerText, pattern) ==
  LET hits == {p \in 1..Len(lowerText) :
                 IF Len(pattern) <= 3 THEN ShortPatternAt(lowerText, pattern, p)
                 ELSE WordPatternAt(lowerText, pattern, p)}
  IN  IF hits = {} THEN -1 ELSE Min(hits) - 1

findDayPatternIndex(lowerText, patterns) ==
  LET found == {PatternIndex(lowerText, patterns[k]) : k \in 1..Len(patterns)} \ {-1}
  IN  IF found = {} THEN -1 ELSE Min(found)

\* Faulty variant of isOtherDay: a line that names today as well ends the section
isAnyDay(nextLine, todayPatterns, allPatterns) ==
  HasAnyDayPattern(nextLine, allPatterns)

\* the isOtherDay test of both section loops, on an already lower-cased line
isOtherDay(nextLine, todayPatterns, allPatterns) ==
  \E k \in 1..Len(allPatterns) :
     /\ lineHasDayPattern(nextLine, allPatterns[k])
     /\ ~HasAnyDayPattern(nextLine, todayPatterns)

\* the loop body of extractSectionFromLineIndex; j, endIndex, startIndex 0-based
RECURSIVE SectionLoop(_, _, _, _, _, _, _)
SectionLoop(lines, startIndex, j, endIndex, sectionLines, todayPatterns, allPatterns) ==
  IF j < Len(lines) /\ endIndex - startIndex < SectionCap
    THEN IF isOtherDay(toLowerCase(lines[j + 1]), todayPatterns, allPatterns)
           THEN sectionLines
           ELSE SectionLoop(lines, startIndex, j + 1, j,
                            Append(sectionLines, lines[j + 1]), todayPatterns, allPatterns)
    ELSE sectionLines

extractSectionFromLineIndex(lines, startIndex, todayPatterns, allPatterns) ==
  joinLines(SectionLoop(lines, startIndex, startIndex + 1, startIndex + 1,
                        <<lines[startIndex + 1]>>, todayPatterns, allPatterns))

\* Faulty variant of IsTodayHeader: the line must be the day name and nothing else
IsTodayHeaderExact(line, todayPatterns) ==
  \E k \in 1..Len(todayPatterns) : toLowerCase(line) = todayPatterns[k]

\* the day-header test of Strategy 1 on one (trimmed) line
IsTodayHeader(line, todayPatterns) ==
  LET lowerLine == toLowerCase(line)
  IN  \E k \in 1..Len(todayPatterns) :
        /\ lineHasDayPattern(lowerLine, todayPatterns[k])
        /\ ~includes(lowerLine, "tomorrow")
        /\ ~includes(lowerLine, "next")

\* the inner loop of Strategy 1 (the same loop as extractSectionFromLineIndex)
RECURSIVE DayHeaderLoop(_, _, _, _, _, _, _)
DayHeaderLoop(lines, i, j, endIndex, sectionLines, todayPatterns, allPatterns) ==
  IF j < Len(lines) /\ endIndex - i < SectionCap
    THEN IF isOtherDay(toLowerCase(lines[j + 1]), todayPatterns, allPatterns)
           THEN sectionLines
           ELSE DayHeaderLoop(lines, i, j + 1, j,
                              Append(sectionLines, lines[j + 1]), todayPatterns, allPatterns)
    ELSE sectionLines

\* the set of days some pattern of which occurs in some line, and the first hit
\* the days some pattern of which occurs in the line
DaysOfLine(line) ==
  LET lowerLine == toLowerCase(line)
  IN  {d \in 0..6 : HasAnyDayPattern(lowerLine, dayPatterns[d])}

\* Faulty variant of findSingleDayHeader: remembers the last line that names a day
findSingleDayHeaderLast(lines) ==
  LET daysOf == [i \in 1..Len(lines) |-> DaysOfLine(lines[i])]
      foundDays == UNION {daysOf[i] : i \in 1..Len(lines)}
      hitLines == {i \in 1..Len(lines) : daysOf[i] # {}}
  IN  IF Cardinality(foundDays) = 1 /\ hitLines # {}
        THEN [found |-> TRUE,
              dayIndex |-> Min(daysOf[Max(hitLines)]),
              lineIndex |-> Max(hitLines) - 1]
        ELSE [found |-> FALSE, dayIndex |-> -1, lineIndex |-> -1]

findSingleDayHeader(lines) ==
  LET daysOf == [i \in 1..Len(lines) |-> DaysOfLine(lines[i])]
      foundDays == UNION {daysOf[i] : i \in 1..Len(lines)}
      hitLines == {i \in 1..Len(lines) : daysOf[i] # {}}
  IN  IF Cardinality(foundDays) = 1 /\ hitLines # {}
        THEN [found |-> TRUE,
              dayIndex |-> Min(daysOf[Min(hitLines)]),
              lineIndex |-> Min(hitLines) - 1]
        ELSE [found |-> FALSE, dayIndex |-> -1, lineIndex |-> -1]

\* text.split('\n').map(l => l.trim())
TrimmedLines(t) ==
  LET ls == splitLines(t) IN [i \in 1..Len(ls) |-> trim(ls[i])]

\* Faulty variant of CharWindow: the window is cut from the lower-cased text
CharWindowOfLowerText(t, idx) ==
  LET sectionStart == Max({0, idx - WindowBefore})
      sectionEnd == Min({Len(t), idx + WindowAfter})
  IN  substring(toLowerCase(t), sectionStart, sectionEnd)

\* the character window of Strategies 2 and 4 around the 0-based index idx
CharWindow(t, idx) ==
  LET sectionStart == Max({0, idx - WindowBefore})
      sectionEnd == Min({Len(t), idx + WindowAfter})
  IN  substring(t, sectionStart, sectionEnd)

\* a strategy that found nothing
NoMatch == [success |-> FALSE, text |-> "", method |-> ""]

\* Faulty variant of DayHeaderStrategy: a later today header replaces an earlier one
DayHeaderStrategyLast(lines, todayPatterns) ==
  LET headers == {i \in 1..Len(lines) : IsTodayHeader(lines[i], todayPatterns)}
      i == Max(headers) - 1
  IN  IF headers = {} THEN NoMatch
      ELSE [success |-> TRUE,
            text |-> joinLines(DayHeaderLoop(lines, i, i + 1, i + 1, <<lines[i + 1]>>,
                                             todayPatterns, allDayPatterns)),
            method |-> "day-header"]

\* Strategy 1: the first line that is a today header, and the lines after it
DayHeaderStrategy(lines, todayPatterns) ==
  LET headers == {i \in 1..Len(lines) : IsTodayHeader(lines[i], todayPatterns)}
      i == Min(headers) - 1
  IN  IF headers = {} THEN NoMatch
      ELSE [success |-> TRUE,
            text |-> joinLines(DayHeaderLoop(lines, i, i + 1, i + 1, <<lines[i + 1]>>,
                                             todayPatterns, allDayPatterns)),
            method |-> "day-header"]

\* Strategy 2: the first date pattern, in list order, that occurs in the text
DateMatchStrategy(t, datePatterns) ==
  LET lowerText == toLowerCase(t)
      ks == {k \in 1..Len(datePatterns) : includes(lowerText, toLowerCase(datePatterns[k]))}
      dateIndex == indexOf(lowerText, toLowerCase(datePatterns[Min(ks)]))
  IN  IF ks = {} THEN NoMatch
      ELSE [success |-> TRUE, text |-> CharWindow(t, dateIndex), method |-> "date-match"]

\* Strategy 3: the page names exactly one day
SingleDayHeaderStrategy(lines) ==
  LET singleDayHeader == findSingleDayHeader(lines)
  IN  IF ~singleDayHeader.found THEN NoMatch
      ELSE [success |-> TRUE,
            text |-> extractSectionFromLineIndex(lines, singleDayHeader.lineIndex,
                                                 dayPatterns[singleDayHeader.dayIndex],
                                                 allDayPatterns),
            method |-> "single-day-header"]

\* Strategy 4: today's day name anywhere in the text
DayInlineStrategy(t, todayPatterns) ==
  LET dayIndex == findDayPatternIndex(toLowerCase(t), todayPatterns)
  IN  IF dayIndex = -1 THEN NoMatch
      ELSE [success |-> TRUE, text |-> CharWindow(t, dayIndex), method |-> "day-inline"]

\* Faulty variant of FailureResult: hands back the trimmed lines instead of the input
FailureResultTrimmed(t) ==
  [success |-> FALSE, text |-> joinLines(TrimmedLines(t)), method |-> "unknown"]

\* Could not identify today's section
FailureResult(t) == [success |-> FALSE, text |-> t, method |-> "unknown"]

\* Faulty variant of extractTodaySection: the date strategy is tried before the day header
extractTodaySectionDateFirst(t, dow, date) ==
  LET todayPatterns == dayPatterns[dow]
      lines == TrimmedLines(t)
      byHeader == DayHeaderStrategy(lines, todayPatterns)
      byDate == DateMatchStrategy(t, getDatePatternsForWindow(date, DateWindowDays))
      bySingleDay == SingleDayHeaderStrategy(lines)
      byInline == DayInlineStrategy(t, todayPatterns)
  IN  IF byDate.success THEN byDate
      ELSE IF byHeader.success THEN byHeader
      ELSE IF bySingleDay.success THEN bySingleDay
      ELSE IF byInline.success THEN byInline
      ELSE FailureResult(t)

\* extractTodaySection with the two clock readings as parameters:
\* dow is new Date().getDay(), date is the second new Date()
extractTodaySection(t, dow, date) ==
  LET todayPatterns == dayPatterns[dow]
      lines == TrimmedLines(t)
      byHeader == DayHeaderStrategy(lines, todayPatterns)
      byDate == DateMatchStrategy(t, getDatePatternsForWindow(date, DateWindowDays))
      bySingleDay == SingleDayHeaderStrategy(lines)
      byInline == DayInlineStrategy(t, todayPatterns)
  IN  IF byHeader.success THEN byHeader
      ELSE IF byDate.success THEN byDate
      ELSE IF bySingleDay.success THEN bySingleDay
      ELSE IF byInline.success THEN byInline
      ELSE FailureResult(t)

-----------------------------------------------------------------------------
(* Line Filter and Fish/Keyword Scanner *)

\* config.js: FISH_KEYWORDS
FISH_KEYWORDS ==
  << "fish", "salmon", "cod", "tuna", "trout", "halibut", "haddock", "mackerel",
     "sea bass", "sea bream", "sardine", "herring", "tilapia", "catfish",
     "kala", "lohi", "turska", "tonnikala", "taimen", "ahven", "kuha", "siika",
     "silakka", "silakkapihvi", "kalaruoka", "kalaviikko",
     "seafood", "fillet", "grilled fish", "baked fish", "fried fish" >>

ENGLISH_FISH_KEYWORDS ==
  << "fish", "salmon", "cod", "tuna", "trout", "halibut", "haddock", "mackerel",
     "sea bass", "sea bream", "sardine", "herring", "tilapia", "catfish",
     "seafood", "fillet", "grilled fish", "baked fish", "fried fish" >>

FINNISH_FISH_KEYWORDS ==
  << "kala", "lohi", "turska", "tonnikala", "taimen", "ahven", "kuha", "siika",
     "silakka", "silakkapihvi", "kalaruoka", "kalaviikko" >>

\* lines shorter than this are skipped by the scanner
MinLineLength == 5
\* a cleaned line keeps at most this many characters
MaxItemLength == 200
\* the scanner stops after this many items
MaxItems == 5

containsKeyword(line, keywords) ==
  \E k \in 1..Len(keywords) : includes(line, keywords[k])

detectLineLanguage(lowerLine) ==
  IF containsKeyword(lowerLine, ENGLISH_FISH_KEYWORDS) THEN "en"
  ELSE IF containsKeyword(lowerLine, FINNISH_FISH_KEYWORDS) THEN "fi"
  ELSE "unknown"

FinnishStreetWords == <<"katu", "tie", "kuja", "polku", "bulevardi", "väylä">>
OtherStreetWords ==
  <<"gatan", "street", "st.", "road", "rd.", "avenue", "ave.", "boulevard", "blvd.">>

IsDigitAt(s, p) == p >= 1 /\ p <= Len(s) /\ CharAt(s, p) \in DigitSet
IsLowerAt(s, p) == p >= 1 /\ p <= Len(s) /\ CharAt(s, p) \in AsciiLowerSet

\* /\b\d{lo,hi}[a-z]?\b/ (letter TRUE) or /\b\d{lo,hi}\b/ (letter FALSE) matches s
HasNumberToken(s, lo, hi, letter) ==
  \E p \in 1..Len(s) : \E n \in lo..hi :
     /\ WordBoundary(s, p - 1)
     /\ \A q \in p..(p + n - 1) : IsDigitAt(s, q)
     /\ \/ WordBoundary(s, p + n - 1)
        \/ letter /\ IsLowerAt(s, p + n) /\ WordBoundary(s, p + n)

isAddressLikeLine(line) ==
  LET lowerLine == toLowerCase(line)
      hasFinnishStreet == containsKeyword(lowerLine, FinnishStreetWords)
      hasOtherStreet ==
        \E k \in 1..Len(OtherStreetWords) : \E p \in 1..Len(lowerLine) :
           WordPatternAt(lowerLine, OtherStreetWords[k], p)
      hasNumber == HasNumberToken(lowerLine, 1, 4, TRUE)
      hasPostalCode == HasNumberToken(lowerLine, 5, 5, FALSE)
  IN  ((hasFinnishStreet \/ hasOtherStreet) /\ hasNumber) \/ hasPostalCode

\* what the characters lo..hi of s become under replace(/\s+/g, ' '): a
\* white-space character that starts a run becomes a blank, the rest of the
\* run disappears
RECURSIVE CollapseRange(_, _, _)
CollapseRange(s, lo, hi) ==
  IF lo > hi THEN ""
  ELSE IF lo = hi THEN
    (IF ~IsSpace(CharAt(s, lo)) THEN CharAt(s, lo)
     ELSE IF lo > 1 /\ IsSpace(CharAt(s, lo - 1)) THEN ""
     ELSE " ")
  ELSE LET mid == (lo + hi) \div 2
       IN  CollapseRange(s, lo, mid) \o CollapseRange(s, mid + 1, hi)

\* trimmedLine.replace(/\s+/g, ' ')
CollapseSpaces(s) == CollapseRange(s, 1, Len(s))

\* Faulty variant of cleanLine: the line is not cut
cleanLineUncut(trimmedLine) == CollapseSpaces(trimmedLine)

cleanLine(trimmedLine) ==
  LET c == CollapseSpaces(trimmedLine)
  IN  substring(c, 0, Min({Len(c), MaxItemLength}))

\* Faulty variant of ScanLoop: address-like lines are not skipped
RECURSIVE ScanLoopWithAddresses(_, _, _)
ScanLoopWithAddresses(lines, k, acc) ==
  IF k > Len(lines) THEN acc
  ELSE
    LET trimmedLine == trim(lines[k])
        lowerLine == toLowerCase(trimmedLine)
    IN  IF Len(trimmedLine) < MinLineLength THEN ScanLoopWithAddresses(lines, k + 1, acc)
        ELSE IF ~containsKeyword(lowerLine, FISH_KEYWORDS)
          THEN ScanLoopWithAddresses(lines, k + 1, acc)
        ELSE
          LET c == cleanLine(trimmedLine)
              language == detectLineLanguage(lowerLine)
              next ==
                IF InSeq(c, acc.fish) THEN acc
                ELSE [fish |-> Append(acc.fish, c),
                      english |-> IF language = "en" THEN Append(acc.english, c)
                                  ELSE acc.english,
                      finnish |-> IF language = "fi" THEN Append(acc.finnish, c)
                                  ELSE acc.finnish]
          IN  IF Len(next.fish) >= MaxItems THEN next
              ELSE ScanLoopWithAddresses(lines, k + 1, next)

\* the for loop of searchForFish over lines[k..]; acc = [fish, english, finnish]
RECURSIVE ScanLoop(_, _, _)
ScanLoop(lines, k, acc) ==
  IF k > Len(lines) THEN acc
  ELSE
    LET trimmedLine == trim(lines[k])
        lowerLine == toLowerCase(trimmedLine)
    IN  IF Len(trimmedLine) < MinLineLength THEN ScanLoop(lines, k + 1, acc)
        ELSE IF isAddressLikeLine(trimmedLine) THEN ScanLoop(lines, k + 1, acc)
        ELSE IF ~containsKeyword(lowerLine, FISH_KEYWORDS) THEN ScanLoop(lines, k + 1, acc)
        ELSE
          LET c == cleanLine(trimmedLine)
              language == detectLineLanguage(lowerLine)
              next ==
                IF InSeq(c, acc.fish) THEN acc
                ELSE [fish |-> Append(acc.fish, c),
                      english |-> IF language = "en" THEN Append(acc.english, c)
                                  ELSE acc.english,
                      finnish |-> IF language = "fi" THEN Append(acc.finnish, c)
                                  ELSE acc.finnish]
          IN  IF Len(next.fish) >= MaxItems THEN next
              ELSE ScanLoop(lines, k + 1, next)

\* Faulty variant of searchForFish: no preference for English lines
searchForFishAnyLanguage(t) ==
  ScanLoop(splitLines(t), 1, [fish |-> <<>>, english |-> <<>>, finnish |-> <<>>]).fish

\* Faulty variant of searchForFish: fishItems is declared at module level, so
\* a scan starts with the matches that the call before it returned
searchForFishSharedList(t) ==
  LET acc == ScanLoop(splitLines(t), 1,
                      [fish |-> result.fishItems, english |-> <<>>, finnish |-> <<>>])
  IN  IF Len(acc.english) > 0 THEN acc.english ELSE acc.fish

\* fishItems, englishItems and finnishItems are new and empty in every call
searchForFish(t) ==
  LET acc == ScanLoop(splitLines(t), 1,
                      [fish |-> <<>>, english |-> <<>>, finnish |-> <<>>])
  IN  IF Len(acc.english) > 0 THEN acc.english ELSE acc.fish

-----------------------------------------------------------------------------
(* Detection Orchestrator *)

\* a scan findFishInText did not make, and one it made
NotScanned == [ran |-> FALSE, items |-> <<>>]
Scanned(items) == [ran |-> TRUE, items |-> items]

Confidence(dayDetection, method) == [dayDetection |-> dayDetection, method |-> method]

\* Faulty variant of WhenSectionEmptyPageMatches: the fallback is reported as confident
WhenSectionEmptyPageMatchesHigh(fallbackItems) ==
  [fishItems |-> fallbackItems, confidence |-> Confidence("high", "full-page-fallback")]

\* Faulty variant of WhenNothingFound: an empty result is reported with low confidence
WhenNothingFoundLow(todaySection) ==
  [fishItems |-> <<>>, confidence |-> Confidence("low", todaySection.method)]

\* Faulty variant of WhenNothingFound: the locator's method is lost
WhenNothingFoundAsFallback(todaySection) ==
  [fishItems |-> <<>>, confidence |-> Confidence("high", "full-page-fallback")]

\* Faulty variant of WhenLocatorFailed: the locator's method tag is passed on
WhenLocatorFailedUnknown(fishItems) ==
  [fishItems |-> fishItems, confidence |-> Confidence("low", "unknown")]

\* Faulty variant of WhenSectionMatches: a match in the section is reported with low confidence
WhenSectionMatchesLow(todaySection, fishItems) ==
  [fishItems |-> fishItems, confidence |-> Confidence("low", todaySection.method)]

\* the four return statements of findFishInText
WhenSectionMatches(todaySection, fishItems) ==
  [fishItems |-> fishItems, confidence |-> Confidence("high", todaySection.method)]

WhenSectionEmptyPageMatches(fallbackItems) ==
  [fishItems |-> fallbackItems, confidence |-> Confidence("low", "full-page-fallback")]

WhenNothingFound(todaySection) ==
  [fishItems |-> <<>>, confidence |-> Confidence("high", todaySection.method)]

WhenLocatorFailed(fishItems) ==
  [fishItems |-> fishItems, confidence |-> Confidence("low", "full-page")]

\* findFishInText after its extractTodaySection call returned todaySection: the
\* scan of the section, the scan of the full page, and the value returned
Detect(t, todaySection) ==
  IF todaySection.success THEN
    LET fishItems == searchForFish(todaySection.text)
        fallbackItems == searchForFish(t)
    IN  IF Len(fishItems) > 0 THEN
          [sectionScan |-> Scanned(fishItems), pageScan |-> NotScanned,
           result |-> WhenSectionMatches(todaySection, fishItems)]
        ELSE IF Len(fallbackItems) > 0 THEN
          [sectionScan |-> Scanned(fishItems), pageScan |-> Scanned(fallbackItems),
           result |-> WhenSectionEmptyPageMatches(fallbackItems)]
        ELSE
          [sectionScan |-> Scanned(fishItems), pageScan |-> Scanned(fallbackItems),
           result |-> WhenNothingFound(todaySection)]
  ELSE
    LET fishItems == searchForFish(t)
    IN  [sectionScan |-> NotScanned, pageScan |-> Scanned(fishItems),
         result |-> WhenLocatorFailed(fishItems)]

findFishInText(t, dow, date) == Detect(t, extractTodaySection(t, dow, date)).result

-----------------------------------------------------------------------------
(* Inputs: the pages and the clock readings the model explores *)

\* most lines of a page built from Vocabulary
MaxLines == 3

Vocabulary ==
  { "Tuesday: Grilled Salmon",
    "Wednesday: Fish Soup",
    "Tiistai:",
    "Next Tue.",
    "29.2. Lohikeitto",
    " No  lunch" }

\* the sequences of at most n lines of Vocabulary
RECURSIVE LineSeqs(_)
LineSeqs(n) ==
  IF n = 0 THEN {<<>>}
  ELSE LET shorter == LineSeqs(n - 1)
       IN  shorter \cup {Append(ls, v) : ls \in {x \in shorter : Len(x) = n - 1},
                                          v \in Vocabulary}

VocabularyPages(n) == {joinLines(ls) : ls \in LineSeqs(n) \ {<<>>}}

\* a weekly menu: one "Day: dish" line for each of Monday .. Friday.  Each day
\* serves the dish of the example of DAILY_MENU_DETECTION.md or the other dish.
WeekDayNames == <<"Monday", "Tuesday", "Wednesday", "Thursday", "Friday">>
ExampleMenu ==
  <<"Pasta Carbonara", "Grilled Salmon", "Chicken Curry", "Beef Stew", "Caesar Salad">>
OtherMenu ==
  <<"Grilled Salmon", "Caesar Salad", "Grilled Salmon", "Grilled Salmon", "Grilled Salmon">>
WeekPage(menu) == joinLines([i \in 1..5 |-> WeekDayNames[i] \o ": " \o menu[i]])
WeekMenus == {menu \in [1..5 -> {ExampleMenu[i] : i \in 1..5}] :
                \A i \in 1..5 : menu[i] \in {ExampleMenu[i], OtherMenu[i]}}
WeekPages == {WeekPage(menu) : menu \in WeekMenus}

Pages == VocabularyPages(MaxLines) \cup WeekPages
ShortPages == VocabularyPages(MaxLines - 1)

\* the lines of a page handed to the scanner alone, from which a page takes
\* at most MaxScanLines, in this order
MaxScanLines == 7

\* fifty characters without a keyword, a digit or white space
Filler == "xxxxxxxxx-xxxxxxxxx-xxxxxxxxx-xxxxxxxxx-xxxxxxxxx-"
\* a line longer than MaxItemLength
LongLine == "Savusiika " \o Filler \o Filler \o Filler \o Filler \o "end"

ScanLines ==
  << "Kalakeitto",
     "Grilled Salmon",
     "Paistettu kuha",
     "Lohikiusaus",
     "  Paistettu \t \f kuha  ",
     LongLine,
     "Silakkapihvit",
     "Lohikeitto, Mannerheimintie 12",
     "Fish and chips",
     "Cod" >>

\* the lines of ScanLines at the positions chosen, in the order of ScanLines
RECURSIVE SelectLines(_, _)
SelectLines(chosen, k) ==
  IF k > Len(ScanLines) THEN <<>>
  ELSE (IF k \in chosen THEN <<ScanLines[k]>> ELSE <<>>) \o SelectLines(chosen, k + 1)

ScanPagesOf(n) ==
  {joinLines(SelectLines(chosen, 1)) :
     chosen \in {c \in SUBSET (1..Len(ScanLines)) : c # {} /\ Cardinality(c) <= n}}

ScanPages == ScanPagesOf(MaxScanLines)

\* pages with lines the Line Filter discards: addresses, a postal code, a
\* line of fewer than MinLineLength characters
AddressLine == "Lohikeitto, Mannerheimintie 12"
NoiseVocabulary ==
  { "Tiistai:",
    AddressLine,
    "Kalatori 00100",
    "Cod",
    "Grilled Salmon",
    "Keskiviikko:" }

RECURSIVE NoiseLineSeqs(_)
NoiseLineSeqs(n) ==
  IF n = 0 THEN {<<>>}
  ELSE LET shorter == NoiseLineSeqs(n - 1)
       IN  shorter \cup {Append(ls, v) : ls \in {x \in shorter : Len(x) = n - 1},
                                          v \in NoiseVocabulary}

NoisePages == {joinLines(ls) : ls \in NoiseLineSeqs(MaxLines) \ {<<>>}}

\* long menus under a Tuesday header: a header, then up to MaxBodyLines dish
\* lines, one of which may name Wednesday, or Tuesday and Wednesday; above the
\* header there may be a line that names Tuesday together with 'next'
MaxBodyLines == 32
DishLine == "Stew"
SectionPrefixes == {<<>>, <<"Next Tuesday: Pike">>}
SectionHeader == "  TUESDAY "
DayMarkers == {"Wednesday: Soup", "Tuesday or Wednesday: Cod"}
BodyLengths == {n \in 0..MaxBodyLines : n <= 2 \/ n >= SectionCap - 1}
PlainBody(n) == [k \in 1..n |-> DishLine]
MarkedBodies(n) ==
  {[PlainBody(n) EXCEPT ![k] = marker] :
     k \in {1, 2, n} \cap 1..n, marker \in DayMarkers}
SectionPages ==
  {joinLines(prefix \o <<SectionHeader>> \o body) :
     prefix \in SectionPrefixes,
     body \in UNION {{PlainBody(n)} \cup MarkedBodies(n) : n \in BodyLengths}}

\* pages on which a date or an inline day name ends a padded dish line, so
\* that the character window opens inside that line, and pages on which the
\* window closes inside a dish line far below the date
MaxPad == 4
MaxTailLines == 15
RECURSIVE Padding(_)
Padding(n) == IF n = 0 THEN "" ELSE "-with-more" \o Padding(n - 1)
WindowDishes ==
  {"Grilled Salmon with rice", "Lohikeitto ja leipa", "Soup of the day: Baked Trout"}
WindowAnchors == {" 27.2.", " Next Tue."}
WindowPrefixes == {<<>>, <<"Lunch menu">>, <<"Wed closed">>}
WindowSuffixes == {<<>>, <<"Perch Fillet with fries">>}
OpenCutPages ==
  {joinLines(prefix \o <<dish \o Padding(n) \o anchor>> \o suffix) :
     prefix \in WindowPrefixes, dish \in WindowDishes, n \in 0..MaxPad,
     anchor \in WindowAnchors, suffix \in WindowSuffixes}
CloseCutPages ==
  {joinLines(<<"Menu 27.2.">> \o [k \in 1..n |-> Filler]
             \o <<"Fried Herring with mashed potatoes">>) :
     n \in (MaxTailLines - 1)..MaxTailLines}
WindowPages == OpenCutPages \cup CloseCutPages

\* the first day the clock may show: Tuesday 2024-02-27
FirstDay == [year |-> 2024, month |-> 2, day |-> 27]
\* Tuesday .. Friday 2024-03-01, across the leap day
ClockDays == {AddDays(FirstDay, k) : k \in 0..3}
\* every day of the week
WeekOfDays == {AddDays(FirstDay, k) : k \in 0..6}

NoSection == [success |-> FALSE, text |-> "", method |-> "none"]
NoResult == [fishItems |-> <<>>, confidence |-> Confidence("none", "none")]

-----------------------------------------------------------------------------
(* The background worker: configuration and the values it handles *)

\* config.js: RESTAURANTS
RESTAURANTS ==
  << [name |-> "Factory Salmisaari",
      url |-> "https://ravintolafactory.com/lounasravintolat/ravintolat/helsinki-salmisaari/"],
     [name |-> "Factory Ruoholahti",
      url |-> "https://ravintolafactory.com/lounasravintolat/ravintolat/factory-ruoholahti/"],
     [name |-> "The Local Kitchen Poijut",
      url |-> "https://www.compass-group.fi/en/ravintolat-ja-ruokalistat/food--co/kaupungit/helsinki/the-local-kitchen-poijut/"],
     [name |-> "Food & Co Ruoholahti",
      url |-> "https://www.compass-group.fi/en/ravintolat-ja-ruokalistat/food--co/kaupungit/helsinki/ruoholahti/"] >>

NumRestaurants == 4
Restaurants == 1..NumRestaurants
\* config.js as shipped: every restaurant enabled
AllEnabled == [r \in Restaurants |-> TRUE]

\* fetchRenderedPageText: const attempts
Attempts == 3
\* fetchRenderedPageText stops early on a text of this length
EarlyExitLength == 300

\* how often the clock may pass midnight during one run
MaxMidnights == 1

\* the error field of a result: null, or a message
NoError == [null |-> TRUE, message |-> ""]
ErrorOf(message) == [null |-> FALSE, message |-> message]

\* Faulty variant of ErrorMessage: an empty message is passed on
ErrorMessageRaw(message) == message

\* error.message || 'Failed to fetch menu'
ErrorMessage(message) == IF message = "" THEN "Failed to fetch menu" ELSE message

\* Faulty variant of ErrorRecord: the record of a failed check carries a confidence
ErrorRecordWithConfidence(r, message) ==
  [name |-> RESTAURANTS[r].name, url |-> RESTAURANTS[r].url,
   hasFish |-> FALSE, fishItems |-> <<>>,
   confidence |-> [dayDetection |-> "low", method |-> "full-page"],
   error |-> ErrorOf(ErrorMessage(message))]

\* the record checkAllRestaurantMenus pushes when a check throws
ErrorRecord(r, message) ==
  [name |-> RESTAURANTS[r].name, url |-> RESTAURANTS[r].url,
   hasFish |-> FALSE, fishItems |-> <<>>, error |-> ErrorOf(ErrorMessage(message))]

\* the record checkRestaurantMenu returns for a detection result
ResultRecord(r, detection) ==
  [name |-> RESTAURANTS[r].name, url |-> RESTAURANTS[r].url,
   hasFish |-> Len(detection.fishItems) > 0, fishItems |-> detection.fishItems,
   confidence |-> detection.confidence, error |-> NoError]

\* Faulty variant of FallbackRecord: the failure of the rendering is reported
FallbackAsError(r, static) == ErrorRecord(r, "Page load timeout")

\* the record checkRestaurantMenu returns when the rendered extraction failed:
\* the static result
FallbackRecord(r, static) == ResultRecord(r, static)

\* staticResult.fishItems.length > 0 && !isSPA
ReturnsAtOnce(static, isSPA) == Len(static.fishItems) > 0 /\ ~isSPA

\* Faulty variant of Escalates: every page without a match is rendered
EscalatesWhenEmpty(static, isSPA) == Len(static.fishItems) = 0

\* staticResult.fishItems.length === 0 && isSPA
Escalates(static, isSPA) == Len(static.fishItems) = 0 /\ isSPA

\* a response body: the text findFishInMenu's tag stripping leaves of the
\* html, and whether looksLikeSPA finds one of its indicators in the html
WeekdayMenu == "Tuesday: Grilled Salmon\nWednesday: Caesar Salad"
SaladMenu == "Tuesday: Caesar Salad"
ResponseBodies ==
  { [text |-> WeekdayMenu, spa |-> FALSE],
    [text |-> WeekdayMenu, spa |-> TRUE],
    [text |-> "Lunch served daily", spa |-> FALSE],
    [text |-> SaladMenu, spa |-> TRUE],
    [text |-> "", spa |-> TRUE] }
\* no body read yet
NoHtml == [text |-> "", spa |-> FALSE]

\* what the script injected into the hidden tab may return: nothing yet, a
\* short text, or the rendered menu, a text of at least EarlyExitLength
\* characters
RenderedMenu ==
  "Grilled Salmon\n" \o Filler \o Filler \o Filler \o Filler \o Filler \o Filler
ShortText == "Loading..."
RenderedTexts == {"", ShortText, RenderedMenu}

\* Faulty variant of StopsEarly: every attempt is made whatever the text
StopsEarlyNever(t) == FALSE

\* lastText && lastText.length >= 300
StopsEarly(t) == Len(t) >= EarlyExitLength

\* the day-of-week and the date a findFishInText call of a run may read
DayIdentities ==
  {[dayOfWeek |-> getDay(AddDays(FirstDay, a)), date |-> AddDays(FirstDay, b)] :
     a \in 0..MaxMidnights, b \in 0..MaxMidnights}

\* findFishInText on the texts a run meets, under every such reading
Detections ==
  [t \in {body.text : body \in ResponseBodies} \cup RenderedTexts, identity \in DayIdentities |->
     findFishInText(t, identity.dayOfWeek, identity.date)]

looksLikeSPA(body) == body.spa
findFishInMenu(body, identity) == Detections[body.text, identity]

\* the messages of the errors fetch may reject with
FetchErrorMessages == {"Failed to fetch", ""}
\* the message checkRestaurantMenu throws for a response that is not ok
HttpErrorMessage == "HTTP 500: Internal Server Error"

\* how a fetchRenderedPageText call settles
NotRendered == [state |-> "pending", text |-> ""]
RenderedValue(t) == [state |-> "value", text |-> t]
RenderedError == [state |-> "error", text |-> ""]

\* chrome.runtime.sendMessage({ action: 'checkMenus' }) of popup.js:26, and a
\* message the listener does not answer (the action offscreen.js:6 listens for)
CheckMenus == [action |-> "checkMenus"]
OtherMessage == [action |-> "fetchRenderedPage"]

\* the runs started so far
Runs == DOMAIN runPc

\* no message has been received yet and no run started; messages are on
\* their way to the worker
Resting(messages) ==
  /\ inbox = messages
  /\ runPc = <<>>
  /\ current = <<>>
  /\ results = <<>>
  /\ judged = <<>>
  /\ midnights = 0
  /\ checkPc = <<>>
  /\ html = <<>>
  /\ staticResult = <<>>

\* the worker at rest
RunIdle == Resting(<<>>)

RenderIdle ==
  /\ renderPc = <<>>
  /\ tab = <<>>
  /\ removeCalls = <<>>
  /\ attempt = <<>>
  /\ lastText = <<>>
  /\ rendered = <<>>

\* getDatePatternsForWindow has not been called
NoPatterns == <<>>
DatesIdle == dateWindow = 0 /\ windowPatterns = NoPatterns

\* waitForTabComplete has not been called
WaitIdle ==
  /\ waitPc = "none"
  /\ listening = FALSE
  /\ timer = "none"
  /\ settleCalls = 0
  /\ settledAt = -1
  /\ elapsed = 0
  /\ updateLog = <<>>

-----------------------------------------------------------------------------
(* The state machine *)

InitWith(pages, days) ==
  /\ text \in pages
  /\ textType = "string"
  /\ clock \in days
  /\ today = -1
  /\ todayDate = FirstDay
  /\ section = NoSection
  /\ sectionScan = NotScanned
  /\ pageScan = NotScanned
  /\ result = NoResult
  /\ pc = "idle"
  /\ history = <<>>
  /\ enabled = AllEnabled
  /\ RunIdle
  /\ RenderIdle
  /\ DatesIdle
  /\ WaitIdle

Init == InitWith(Pages, ClockDays)

\* short pages on every day of the week
InitAllDays == InitWith(ShortPages, WeekOfDays)

\* findFishInText(text): the extractTodaySection call and the scans it makes.
\* extractTodaySection reads the clock twice (background.js:277 and :294);
\* midnight may pass between the two readings.
CallFindFishInText ==
  /\ pc = "idle"
  /\ textType = "string"
  /\ \E midnight \in BOOLEAN :
     \E date \in {IF midnight THEN AddDays(clock, 1) ELSE clock} :
     \E todaySection \in {extractTodaySection(text, getDay(clock), date)} :
     \E detected \in {Detect(text, todaySection)} :
       /\ today' = getDay(clock)
       /\ todayDate' = date
       /\ section' = todaySection
       /\ sectionScan' = detected.sectionScan
       /\ pageScan' = detected.pageScan
       /\ result' = detected.result
       /\ history' = Append(history, [text |-> text, dayOfWeek |-> getDay(clock),
                                       date |-> date, result |-> detected.result])
  /\ pc' = "done"
  /\ UNCHANGED <<text, textType, clock, runVars, renderVars, dateVars, waitVars>>

Next == CallFindFishInText

Spec == Init /\ [][Next]_vars

SpecAllDays == InitAllDays /\ [][Next]_vars

\* findFishInText on long menus under a Tuesday header, on a Tuesday
InitSection == InitWith(SectionPages, {FirstDay})
SpecSection == InitSection /\ [][Next]_vars

\* findFishInText on pages whose character windows cut lines, on a Tuesday
InitWindow == InitWith(WindowPages, {FirstDay})
SpecWindow == InitWindow /\ [][Next]_vars

\* findFishInText on pages with addresses and short lines
InitNoise == InitWith(NoisePages, ClockDays)

SpecNoise == InitNoise /\ [][Next]_vars

\* findFishInText(textContent) with textContent null or undefined:
\* extractTodaySection reads the clock, then text.split at background.js:297
\* throws a TypeError that nothing in findFishInText catches
ThrowOnAbsentText ==
  /\ pc = "idle"
  /\ textType # "string"
  /\ \E midnight \in BOOLEAN :
       /\ today' = getDay(clock)
       /\ todayDate' = IF midnight THEN AddDays(clock, 1) ELSE clock
  /\ pc' = "threw"
  /\ UNCHANGED <<text, textType, section, sectionScan, pageScan, result, history>>
  /\ UNCHANGED <<clock, runVars, renderVars, dateVars, waitVars>>

\* findFishInText called with a text or with none
InitAbsent ==
  /\ \/ textType = "string" /\ text \in ShortPages
     \/ textType \in {"null", "undefined"} /\ text = ""
  /\ clock \in ClockDays
  /\ today = -1
  /\ todayDate = FirstDay
  /\ section = NoSection
  /\ sectionScan = NotScanned
  /\ pageScan = NotScanned
  /\ result = NoResult
  /\ pc = "idle"
  /\ history = <<>>
  /\ enabled = AllEnabled
  /\ RunIdle
  /\ RenderIdle
  /\ DatesIdle
  /\ WaitIdle

NextAbsent == CallFindFishInText \/ ThrowOnAbsentText

SpecAbsent == InitAbsent /\ [][NextAbsent]_vars

\* findFishInText called again and again by the same worker
MaxCalls == 3

RepeatPages == {"Tuesday: Grilled Salmon\nWednesday: Fish Soup", "Tiistai:", "29.2. Lohikeitto"}
RepeatDays == {AddDays(FirstDay, k) : k \in 0..1}

InitRepeat == InitWith(RepeatPages, RepeatDays)

\* the worker is handed another page, at some later time
NextInvocation ==
  /\ pc = "done"
  /\ Len(history) < MaxCalls
  /\ text' \in RepeatPages
  /\ clock' \in RepeatDays
  /\ pc' = "idle"
  /\ UNCHANGED <<textType, today, todayDate, section, sectionScan, pageScan, result, history>>
  /\ UNCHANGED <<runVars, renderVars, dateVars, waitVars>>

NextRepeat == CallFindFishInText \/ NextInvocation

SpecRepeat == InitRepeat /\ [][NextRepeat]_vars

\* searchForFish(text) called on its own
InitScan == InitWith(ScanPages, {FirstDay})

CallSearchForFish ==
  /\ pc = "idle"
  /\ textType = "string"
  /\ \E fishItems \in {searchForFish(text)} : pageScan' = Scanned(fishItems)
  /\ pc' = "done"
  /\ UNCHANGED <<text, textType, clock, today, todayDate, section, sectionScan, result>>
  /\ UNCHANGED history
  /\ UNCHANGED <<runVars, renderVars, dateVars, waitVars>>

NextScan == CallSearchForFish

SpecScan == InitScan /\ [][NextScan]_vars

-----------------------------------------------------------------------------
(* fetchRenderedPageText *)

\* the finally block of fetchRenderedPageText with tabId set: chrome.tabs.remove
\* is invoked, and the call settles with the outcome once remove has settled
CloseTab(m, outcome) ==
  /\ renderPc' = [renderPc EXCEPT ![m] = "closing"]
  /\ removeCalls' = [removeCalls EXCEPT ![m] = removeCalls[m] + 1]
  /\ rendered' = [rendered EXCEPT ![m] = outcome]

\* fetchRenderedPageText(url) called on its own
CallFetchRenderedPageText ==
  \E m \in Runs :
  /\ runPc[m] = "idle" /\ renderPc[m] = "none"
  /\ renderPc' = [renderPc EXCEPT ![m] = "creating"]
  /\ UNCHANGED <<tab, removeCalls, attempt, lastText, rendered>>
  /\ UNCHANGED <<callVars, clock, runVars, dateVars, waitVars>>

\* chrome.tabs.create resolves: the hidden tab exists, waitForTabComplete starts
TabCreated ==
  \E m \in Runs :
  /\ renderPc[m] = "creating"
  /\ tab' = [tab EXCEPT ![m] = "open"]
  /\ renderPc' = [renderPc EXCEPT ![m] = "loading"]
  /\ UNCHANGED <<removeCalls, attempt, lastText, rendered>>
  /\ UNCHANGED <<callVars, clock, runVars, dateVars, waitVars>>

\* chrome.tabs.create rejects: tabId stays undefined, nothing to remove
TabCreateFails ==
  \E m \in Runs :
  /\ renderPc[m] = "creating"
  /\ renderPc' = [renderPc EXCEPT ![m] = "settled"]
  /\ rendered' = [rendered EXCEPT ![m] = RenderedError]
  /\ UNCHANGED <<tab, removeCalls, attempt, lastText>>
  /\ UNCHANGED <<callVars, clock, runVars, dateVars, waitVars>>

\* waitForTabComplete resolves: the first delay starts
TabComplete ==
  \E m \in Runs :
  /\ renderPc[m] = "loading"
  /\ renderPc' = [renderPc EXCEPT ![m] = "delaying"]
  /\ attempt' = [attempt EXCEPT ![m] = 0]
  /\ lastText' = [lastText EXCEPT ![m] = ""]
  /\ UNCHANGED <<tab, removeCalls, rendered>>
  /\ UNCHANGED <<callVars, clock, runVars, dateVars, waitVars>>

\* waitForTabComplete rejects with 'Page load timeout'
PageLoadTimeout ==
  \E m \in Runs :
  /\ renderPc[m] = "loading"
  /\ CloseTab(m, RenderedError)
  /\ UNCHANGED <<tab, attempt, lastText>>
  /\ UNCHANGED <<callVars, clock, runVars, dateVars, waitVars>>

\* the delay of the attempt elapses: chrome.scripting.executeScript is called
DelayElapses ==
  \E m \in Runs :
  /\ renderPc[m] = "delaying"
  /\ renderPc' = [renderPc EXCEPT ![m] = "executing"]
  /\ UNCHANGED <<tab, removeCalls, attempt, lastText, rendered>>
  /\ UNCHANGED <<callVars, clock, runVars, dateVars, waitVars>>

\* executeScript resolves with the text of the page: stop early on a text
\* long enough, go on to the next attempt, or return what the last one gave
ScriptReturns ==
  \E m \in Runs :
  /\ renderPc[m] = "executing"
  /\ \E t \in RenderedTexts :
       /\ lastText' = [lastText EXCEPT ![m] = t]
       /\ IF StopsEarly(t)
            THEN CloseTab(m, RenderedValue(t)) /\ UNCHANGED attempt
          ELSE IF attempt[m] + 1 < Attempts
            THEN /\ attempt' = [attempt EXCEPT ![m] = attempt[m] + 1]
                 /\ renderPc' = [renderPc EXCEPT ![m] = "delaying"]
                 /\ UNCHANGED <<removeCalls, rendered>>
          ELSE CloseTab(m, RenderedValue(t)) /\ attempt' = [attempt EXCEPT ![m] = attempt[m] + 1]
  /\ UNCHANGED tab
  /\ UNCHANGED <<callVars, clock, runVars, dateVars, waitVars>>

\* executeScript rejects
ScriptFails ==
  \E m \in Runs :
  /\ renderPc[m] = "executing"
  /\ CloseTab(m, RenderedError)
  /\ UNCHANGED <<tab, attempt, lastText>>
  /\ UNCHANGED <<callVars, clock, runVars, dateVars, waitVars>>

\* chrome.tabs.remove resolves: the tab is gone, the call settles
TabRemoved ==
  \E m \in Runs :
  /\ renderPc[m] = "closing"
  /\ tab' = [tab EXCEPT ![m] = "closed"]
  /\ renderPc' = [renderPc EXCEPT ![m] = "settled"]
  /\ UNCHANGED <<removeCalls, attempt, lastText, rendered>>
  /\ UNCHANGED <<callVars, clock, runVars, dateVars, waitVars>>

\* chrome.tabs.remove rejects: 'Failed to close hidden tab' is logged, the
\* tab stays, the call settles
TabRemoveFails ==
  \E m \in Runs :
  /\ renderPc[m] = "closing"
  /\ tab' = [tab EXCEPT ![m] = "left open"]
  /\ renderPc' = [renderPc EXCEPT ![m] = "settled"]
  /\ UNCHANGED <<removeCalls, attempt, lastText, rendered>>
  /\ UNCHANGED <<callVars, clock, runVars, dateVars, waitVars>>

RenderStep ==
  \/ TabCreated
  \/ TabCreateFails
  \/ TabComplete
  \/ PageLoadTimeout
  \/ DelayElapses
  \/ ScriptReturns
  \/ ScriptFails
  \/ TabRemoved
  \/ TabRemoveFails

\* a call for the page of every restaurant, made outside any run: the one
\* entry of runPc, ..., rendered is the context of that call
InitRender ==
  /\ text = "" /\ textType = "string"
  /\ clock = FirstDay /\ today = -1 /\ todayDate = FirstDay
  /\ section = NoSection /\ sectionScan = NotScanned /\ pageScan = NotScanned
  /\ result = NoResult /\ pc = "idle" /\ history = <<>>
  /\ enabled = AllEnabled
  /\ inbox = <<>>
  /\ runPc = <<"idle">> /\ current \in {<<r>> : r \in Restaurants}
  /\ results = <<<<>>>> /\ judged = <<{}>> /\ midnights = 0
  /\ checkPc = <<"none">> /\ html = <<NoHtml>> /\ staticResult = <<NoResult>>
  /\ renderPc = <<"none">> /\ tab = <<"none">> /\ removeCalls = <<0>>
  /\ attempt = <<0>> /\ lastText = <<"">> /\ rendered = <<NotRendered>>
  /\ DatesIdle
  /\ WaitIdle

NextRender == CallFetchRenderedPageText \/ RenderStep

SpecRender == InitRender /\ [][NextRender]_vars

-----------------------------------------------------------------------------
(* checkAllRestaurantMenus and checkRestaurantMenu *)

\* the check of the current restaurant is over: its record is pushed and the
\* for loop goes on
PushAndContinue(m, record) ==
  /\ results' = [results EXCEPT ![m] = Append(results[m], record)]
  /\ current' = [current EXCEPT ![m] = current[m] + 1]
  /\ runPc' = [runPc EXCEPT ![m] = "loop"]
  /\ checkPc' = [checkPc EXCEPT ![m] = "none"]

\* a findFishInText call reads the clock at background.js:277 and again at
\* :294; midnight may pass between the two readings
MidnightChoices == {FALSE} \cup {b \in {TRUE} : midnights < MaxMidnights}
ReadClock(midnight) ==
  [dayOfWeek |-> getDay(clock), date |-> IF midnight THEN AddDays(clock, 1) ELSE clock]
ClockRead(m, midnight, identity) ==
  /\ clock' = identity.date
  /\ midnights' = IF midnight THEN midnights + 1 ELSE midnights
  /\ judged' = [judged EXCEPT ![m] = judged[m] \cup {identity}]

\* the listener of background.js:7-19 is handed a 'checkMenus' message: a run
\* of checkAllRestaurantMenus starts, whatever the runs before it are at
OnCheckMenus ==
  /\ inbox # <<>> /\ Head(inbox).action = "checkMenus"
  /\ inbox' = Tail(inbox)
  /\ runPc' = Append(runPc, "loop")
  /\ current' = Append(current, 1)
  /\ results' = Append(results, <<>>)
  /\ judged' = Append(judged, {})
  /\ checkPc' = Append(checkPc, "none")
  /\ html' = Append(html, NoHtml)
  /\ staticResult' = Append(staticResult, NoResult)
  /\ renderPc' = Append(renderPc, "none")
  /\ tab' = Append(tab, "none")
  /\ removeCalls' = Append(removeCalls, 0)
  /\ attempt' = Append(attempt, 0)
  /\ lastText' = Append(lastText, "")
  /\ rendered' = Append(rendered, NotRendered)
  /\ UNCHANGED <<enabled, midnights>>
  /\ UNCHANGED <<callVars, clock, dateVars, waitVars>>

\* the listener is handed a message with another action: it does nothing
OnOtherMessage ==
  /\ inbox # <<>> /\ Head(inbox).action # "checkMenus"
  /\ inbox' = Tail(inbox)
  /\ UNCHANGED <<enabled, runPc, current, results, judged, midnights, checkPc, html, staticResult>>
  /\ UNCHANGED <<callVars, clock, renderVars, dateVars, waitVars>>

\* for loop: a restaurant that is not enabled is passed over
SkipDisabled ==
  \E m \in Runs :
  /\ runPc[m] = "loop" /\ current[m] <= NumRestaurants /\ ~enabled[current[m]]
  /\ current' = [current EXCEPT ![m] = current[m] + 1]
  /\ UNCHANGED <<inbox, enabled, runPc, results, judged, midnights, checkPc, html, staticResult>>
  /\ UNCHANGED <<callVars, clock, renderVars, dateVars, waitVars>>

\* for loop: checkRestaurantMenu is called and issues its fetch
StartCheck ==
  \E m \in Runs :
  /\ runPc[m] = "loop" /\ current[m] <= NumRestaurants /\ enabled[current[m]]
  /\ runPc' = [runPc EXCEPT ![m] = "checking"]
  /\ checkPc' = [checkPc EXCEPT ![m] = "fetching"]
  /\ UNCHANGED <<inbox, enabled, current, results, judged, midnights, html, staticResult>>
  /\ UNCHANGED <<callVars, clock, renderVars, dateVars, waitVars>>

\* fetch rejects: checkRestaurantMenu rethrows, the loop pushes an error record
FetchRejects ==
  \E m \in Runs :
  /\ runPc[m] = "checking" /\ checkPc[m] = "fetching"
  /\ \E message \in FetchErrorMessages : PushAndContinue(m, ErrorRecord(current[m], message))
  /\ UNCHANGED <<inbox, enabled, judged, midnights, html, staticResult>>
  /\ UNCHANGED <<callVars, clock, renderVars, dateVars, waitVars>>

\* fetch resolves: a response that is not ok makes checkRestaurantMenu throw,
\* otherwise it waits for the body
FetchResponds ==
  \E m \in Runs :
  /\ runPc[m] = "checking" /\ checkPc[m] = "fetching"
  /\ \E ok \in BOOLEAN :
       IF ok THEN /\ checkPc' = [checkPc EXCEPT ![m] = "reading"]
                  /\ UNCHANGED <<runPc, current, results>>
       ELSE PushAndContinue(m, ErrorRecord(current[m], HttpErrorMessage))
  /\ UNCHANGED <<inbox, enabled, judged, midnights, html, staticResult>>
  /\ UNCHANGED <<callVars, clock, renderVars, dateVars, waitVars>>

\* response.text() rejects
BodyFails ==
  \E m \in Runs :
  /\ runPc[m] = "checking" /\ checkPc[m] = "reading"
  /\ \E message \in FetchErrorMessages : PushAndContinue(m, ErrorRecord(current[m], message))
  /\ UNCHANGED <<inbox, enabled, judged, midnights, html, staticResult>>
  /\ UNCHANGED <<callVars, clock, renderVars, dateVars, waitVars>>

\* response.text() resolves: the static detection, then the static result is
\* returned or fetchRenderedPageText is called
BodyArrives ==
  \E m \in Runs :
  /\ runPc[m] = "checking" /\ checkPc[m] = "reading"
  /\ \E body \in ResponseBodies : \E midnight \in MidnightChoices :
     \E identity \in {ReadClock(midnight)} :
     \E static \in {findFishInMenu(body, identity)} :
       /\ ClockRead(m, midnight, identity)
       /\ html' = [html EXCEPT ![m] = body]
       /\ staticResult' = [staticResult EXCEPT ![m] = static]
       /\ IF ReturnsAtOnce(static, looksLikeSPA(body))
            THEN PushAndContinue(m, ResultRecord(current[m], static)) /\ UNCHANGED renderVars
          ELSE IF Escalates(static, looksLikeSPA(body))
            THEN /\ checkPc' = [checkPc EXCEPT ![m] = "rendering"]
                 /\ renderPc' = [renderPc EXCEPT ![m] = "creating"]
                 /\ tab' = [tab EXCEPT ![m] = "none"] /\ removeCalls' = [removeCalls EXCEPT ![m] = 0] /\ attempt' = [attempt EXCEPT ![m] = 0]
                 /\ lastText' = [lastText EXCEPT ![m] = ""] /\ rendered' = [rendered EXCEPT ![m] = NotRendered]
                 /\ UNCHANGED <<runPc, current, results>>
          ELSE PushAndContinue(m, ResultRecord(current[m], static)) /\ UNCHANGED renderVars
  /\ UNCHANGED <<inbox, enabled>>
  /\ UNCHANGED <<callVars, dateVars, waitVars>>

\* fetchRenderedPageText has settled: the rendered text is searched, or the
\* static result is returned when the rendering failed
CheckResumes ==
  \E m \in Runs :
  /\ runPc[m] = "checking" /\ checkPc[m] = "rendering" /\ renderPc[m] = "settled"
  /\ IF rendered[m].state = "value"
       THEN \E midnight \in MidnightChoices :
            \E identity \in {ReadClock(midnight)} :
            \E renderedResult \in {Detections[rendered[m].text, identity]} :
              /\ ClockRead(m, midnight, identity)
              /\ PushAndContinue(m, ResultRecord(current[m], renderedResult))
     ELSE /\ PushAndContinue(m, FallbackRecord(current[m], staticResult[m]))
          /\ UNCHANGED <<clock, midnights, judged>>
  /\ renderPc' = [renderPc EXCEPT ![m] = "none"]
  /\ attempt' = [attempt EXCEPT ![m] = 0] /\ lastText' = [lastText EXCEPT ![m] = ""] /\ rendered' = [rendered EXCEPT ![m] = NotRendered]
  /\ UNCHANGED <<tab, removeCalls>>
  /\ UNCHANGED <<inbox, enabled, html, staticResult>>
  /\ UNCHANGED <<callVars, dateVars, waitVars>>

\* the for loop is over: the results are returned and sent as the response
ReturnResults ==
  \E m \in Runs :
  /\ runPc[m] = "loop" /\ current[m] > NumRestaurants
  /\ runPc' = [runPc EXCEPT ![m] = "returned"]
  /\ UNCHANGED <<inbox, enabled, current, results, judged, midnights, checkPc, html, staticResult>>
  /\ UNCHANGED <<callVars, clock, renderVars, dateVars, waitVars>>

\* the wall clock passes midnight while a check is under way, at whichever
\* await it stands: fetch, response.text(), chrome.tabs.create, the page
\* load, a delay, executeScript, chrome.tabs.remove
Midnight ==
  \E m \in Runs :
  /\ runPc[m] = "checking"
  /\ midnights < MaxMidnights
  /\ clock' = AddDays(clock, 1)
  /\ midnights' = midnights + 1
  /\ UNCHANGED <<inbox, enabled, runPc, current, results, judged, checkPc, html, staticResult>>
  /\ UNCHANGED <<callVars, renderVars, dateVars, waitVars>>

\* one 'checkMenus' message is on its way to the worker, under every setting
\* of the enabled flags
InitRun ==
  /\ text = "" /\ textType = "string"
  /\ clock = FirstDay /\ today = -1 /\ todayDate = FirstDay
  /\ section = NoSection /\ sectionScan = NotScanned /\ pageScan = NotScanned
  /\ result = NoResult /\ pc = "idle" /\ history = <<>>
  /\ enabled \in [Restaurants -> BOOLEAN]
  /\ Resting(<<CheckMenus>>)
  /\ RenderIdle
  /\ DatesIdle
  /\ WaitIdle

NextRun ==
  \/ OnCheckMenus
  \/ SkipDisabled
  \/ StartCheck
  \/ FetchRejects
  \/ FetchResponds
  \/ BodyFails
  \/ BodyArrives
  \/ RenderStep
  \/ CheckResumes
  \/ ReturnResults
  \/ Midnight

SpecRun == InitRun /\ [][NextRun]_vars

\* what the worker can count on: its own steps are taken (the for loop, the
\* continuation after an await that has settled) and the timers fire (the
\* 10 s page-load timeout, the delays).  Nothing makes the fetch of
\* background.js:51 settle, it is given no signal and no timeout, and nothing
\* does so for response.text(), chrome.tabs.create, executeScript and
\* chrome.tabs.remove.
FairRun ==
  /\ WF_vars(SkipDisabled)
  /\ WF_vars(StartCheck)
  /\ WF_vars(CheckResumes)
  /\ WF_vars(ReturnResults)
  /\ WF_vars(PageLoadTimeout)
  /\ WF_vars(DelayElapses)

\* a run under every setting of the enabled flags, with the fairness above
SpecRunFair == InitRun /\ [][NextRun]_vars /\ FairRun

\* Several messages: a popup sends 'checkMenus', a popup opened while that run
\* is under way sends it again, and a message with another action passes in
\* between.  Only the last restaurant is enabled.
LastOnly == [r \in Restaurants |-> r = NumRestaurants]
MessagesSent == <<CheckMenus, OtherMessage, CheckMenus>>

InitMessages ==
  /\ text = "" /\ textType = "string"
  /\ clock = FirstDay /\ today = -1 /\ todayDate = FirstDay
  /\ section = NoSection /\ sectionScan = NotScanned /\ pageScan = NotScanned
  /\ result = NoResult /\ pc = "idle" /\ history = <<>>
  /\ enabled = LastOnly
  /\ Resting(MessagesSent)
  /\ RenderIdle
  /\ DatesIdle
  /\ WaitIdle

NextMessages == NextRun \/ OnOtherMessage

SpecMessages == InitMessages /\ [][NextMessages]_vars

-----------------------------------------------------------------------------
(* getDatePatternsForWindow on its own *)

\* the dates and windows it is called with: every day from FirstDate on for
\* DateSpan days (a year end, the leap day of 2024) and the end of the
\* February of 2023
MaxWindow == 2
DateSpan == 77
FirstDate == [year |-> 2023, month |-> 12, day |-> 20]
ShortFebruary == [year |-> 2023, month |-> 2, day |-> 26]
DateSamples ==
  {d \in [year : 2023..2024, month : 1..12, day : 1..31] :
     /\ d.day <= DaysInMonth(d.year, d.month)
     /\ \/ DaysFromCivil(d) - DaysFromCivil(FirstDate) \in 0..DateSpan
        \/ DaysFromCivil(d) - DaysFromCivil(ShortFebruary) \in 0..4}

InitDates ==
  /\ text = "" /\ textType = "string"
  /\ clock \in DateSamples /\ today = -1 /\ todayDate = FirstDay
  /\ section = NoSection /\ sectionScan = NotScanned /\ pageScan = NotScanned
  /\ result = NoResult /\ pc = "idle" /\ history = <<>>
  /\ enabled = AllEnabled
  /\ RunIdle
  /\ RenderIdle
  /\ dateWindow \in 0..MaxWindow
  /\ windowPatterns = NoPatterns
  /\ WaitIdle

\* getDatePatternsForWindow(date, windowDays)
CallGetDatePatternsForWindow ==
  /\ windowPatterns = NoPatterns
  /\ windowPatterns' = getDatePatternsForWindow(clock, dateWindow)
  /\ UNCHANGED <<callVars, clock, runVars, renderVars, dateWindow, waitVars>>

NextDates == CallGetDatePatternsForWindow

SpecDates == InitDates /\ [][NextDates]_vars

-----------------------------------------------------------------------------
(* waitForTabComplete on its own *)

\* the timeout in ticks, the ticks the model follows, the tab updates it follows
TimeoutTicks == 2
MaxTicks == TimeoutTicks + 1
MaxUpdates == 3

\* the tab of the call and another tab; the statuses of an update
TabIds == {"own", "other"}
Statuses == {"loading", "complete"}

\* Faulty variant of IsOwnComplete: the tab of the update is not looked at
IsAnyComplete(updatedTabId, status) == status = "complete"

\* updatedTabId === tabId && info.status === 'complete'
IsOwnComplete(updatedTabId, status) == updatedTabId = "own" /\ status = "complete"

\* cleanup(): clearTimeout(timeout) and removeListener(onUpdated)
cleanup ==
  /\ timer' = IF timer = "armed" THEN "cleared" ELSE timer
  /\ listening' = FALSE

\* resolve() or reject(): only the first call settles the promise
Settle(outcome) ==
  /\ waitPc' = IF waitPc = "waiting" THEN outcome ELSE waitPc
  /\ settleCalls' = settleCalls + 1
  /\ settledAt' = IF waitPc = "waiting" THEN elapsed ELSE settledAt

\* the tab is there (chrome.tabs.create has resolved), waitForTabComplete is
\* not yet called
InitWait ==
  /\ text = "" /\ textType = "string"
  /\ clock = FirstDay /\ today = -1 /\ todayDate = FirstDay
  /\ section = NoSection /\ sectionScan = NotScanned /\ pageScan = NotScanned
  /\ result = NoResult /\ pc = "idle" /\ history = <<>>
  /\ enabled = AllEnabled
  /\ RunIdle
  /\ RenderIdle
  /\ DatesIdle
  /\ WaitIdle

\* waitForTabComplete(tabId, timeoutMs): the timer is set, the listener added
CallWaitForTabComplete ==
  /\ waitPc = "none"
  /\ waitPc' = "waiting"
  /\ timer' = "armed"
  /\ listening' = TRUE
  /\ elapsed' = 0
  /\ UNCHANGED <<settleCalls, settledAt, updateLog>>
  /\ UNCHANGED <<callVars, clock, runVars, renderVars, dateVars>>

\* chrome.tabs.onUpdated fires for some tab: onUpdated runs if it is registered
TabUpdated ==
  /\ Len(updateLog) < MaxUpdates
  /\ \E updatedTabId \in TabIds : \E status \in Statuses :
       /\ updateLog' = Append(updateLog, [tab |-> updatedTabId, status |-> status,
                                          heard |-> listening])
       /\ IF listening /\ IsOwnComplete(updatedTabId, status)
            THEN cleanup /\ Settle("resolved")
            ELSE UNCHANGED <<waitPc, listening, timer, settleCalls, settledAt>>
  /\ UNCHANGED elapsed
  /\ UNCHANGED <<callVars, clock, runVars, renderVars, dateVars>>

\* time passes, also past the timeout of a timer that is still armed: its
\* callback waits for the event loop
Tick ==
  /\ waitPc # "none"
  /\ elapsed < MaxTicks
  /\ elapsed' = elapsed + 1
  /\ UNCHANGED <<waitPc, listening, timer, settleCalls, settledAt, updateLog>>
  /\ UNCHANGED <<callVars, clock, runVars, renderVars, dateVars>>

\* the timeout callback runs, at the timeout or after it: cleanup, then
\* reject('Page load timeout')
TimerFires ==
  /\ timer = "armed" /\ elapsed >= TimeoutTicks
  /\ timer' = "fired"
  /\ listening' = FALSE
  /\ Settle("rejected")
  /\ UNCHANGED <<elapsed, updateLog>>
  /\ UNCHANGED <<callVars, clock, runVars, renderVars, dateVars>>

NextWait == CallWaitForTabComplete \/ TabUpdated \/ Tick \/ TimerFires

\* timers fire: time passes and the event loop gets to the callback of a
\* timer that is due
SpecWait == InitWait /\ [][NextWait]_vars /\ WF_vars(Tick) /\ WF_vars(TimerFires)

TypeOK ==
  /\ pc \in {"idle", "done", "threw"}
  /\ textType \in {"string", "null", "undefined"}
  /\ today \in -1..6
  /\ section.method \in {"none", "day-header", "date-match", "single-day-header",
                         "day-inline", "unknown"}

-----------------------------------------------------------------------------
(* What a returned state says about its page *)

Done == pc = "done"
PageLines == TrimmedLines(text)
Method == section.method
DayDetection == result.confidence.dayDetection

\* some line qualifies as a today day-header
HasTodayHeader ==
  \E i \in 1..Len(PageLines) : IsTodayHeader(PageLines[i], dayPatterns[today])

\* the page holds, case-insensitively, one of the date strings of the date
ContainsDateOf(t, date) ==
  LET lowerText == toLowerCase(t)
      patterns == getDatePatterns(date)
  IN  \E k \in 1..Len(patterns) : includes(lowerText, toLowerCase(patterns[k]))

\* ... of yesterday, today or tomorrow, counted from the date the call read
HasWindowDate == \E offset \in {-1, 0, 1} : ContainsDateOf(text, AddDays(todayDate, offset))

\* the days of the week the page names, and the lines that name one
MentionedDays == UNION {DaysOfLine(PageLines[i]) : i \in 1..Len(PageLines)}
DayLines == {i \in 1..Len(PageLines) : DaysOfLine(PageLines[i]) # {}}
NamesOneDay == Cardinality(MentionedDays) = 1

\* today's day name occurs as a word somewhere in the page
HasInlineToday == findDayPatternIndex(toLowerCase(text), dayPatterns[today]) # -1

TuesdaySalmon == "Tuesday: Grilled Salmon"
SalmonLines == {i \in 1..Len(PageLines) : PageLines[i] = TuesdaySalmon}

-----------------------------------------------------------------------------
(* Claims *)

\* C1: on a page of five weekday sections whose Friday section has no fish
\* keyword and whose Tuesday section has one, findFishInText on a Friday
\* returns no fish items (and so no line of Tuesday's section).
C1_FridayHasNoFish ==
  (Done /\ today = 5) =>
    \A menu \in WeekMenus :
      ( /\ text = WeekPage(menu)
        /\ ~containsKeyword(toLowerCase(menu[5]), FISH_KEYWORDS)
        /\ containsKeyword(toLowerCase(menu[2]), FISH_KEYWORDS) )
      => result.fishItems = <<>>

\* C2 as stated: dayDetection is "high" exactly when the locator succeeded and
\* the scan of the located section found at least one item, otherwise "low".
C2_HighIffSectionMatched ==
  Done =>
    /\ DayDetection \in {"high", "low"}
    /\ DayDetection = "high" <=> (section.success /\ Len(sectionScan.items) > 0)

\* C2 amended: dayDetection is "high" exactly when the locator succeeded and
\* either the scan of the located section found an item or the scan of the
\* full page found none as well; otherwise it is "low".
C2_HighIffMatchedOrNothing ==
  Done =>
    /\ DayDetection \in {"high", "low"}
    /\ DayDetection = "high" <=>
         /\ section.success
         /\ sectionScan.ran
         /\ \/ Len(sectionScan.items) > 0
            \/ pageScan.ran /\ Len(pageScan.items) = 0

\* C2 witness: a confident answer although the section scan found nothing
C2_Witness ==
  /\ Done
  /\ section.success
  /\ sectionScan.ran /\ sectionScan.items = <<>>
  /\ DayDetection = "high"

\* C3: the strategies are tried in the order day-header, date-match,
\* single-day-header, day-inline, and the first that applies decides the method.
C3_StrategyOrder ==
  Done =>
    /\ HasTodayHeader => Method = "day-header"
    /\ (~HasTodayHeader /\ HasWindowDate) => Method = "date-match"
    /\ (~HasTodayHeader /\ ~HasWindowDate /\ NamesOneDay) => Method = "single-day-header"
    /\ (~HasTodayHeader /\ ~HasWindowDate /\ ~NamesOneDay /\ HasInlineToday)
         => Method = "day-inline"

\* C3 witness: a today header wins although a date string, a single named day
\* and an inline mention are all there as well
C3_Witness ==
  /\ Done
  /\ HasTodayHeader /\ HasWindowDate /\ NamesOneDay /\ HasInlineToday
  /\ Method = "day-header"

\* C4 as stated: on a Tuesday, every page with the line "Tuesday: Grilled
\* Salmon" yields fishItems holding that line and dayDetection "high".
C4_TuesdaySalmonAlwaysHigh ==
  (Done /\ today = 2 /\ SalmonLines # {}) =>
    /\ InSeq(TuesdaySalmon, result.fishItems)
    /\ DayDetection = "high"

\* C4 amended: on a Tuesday, a page whose first today day-header is the line
\* "Tuesday: Grilled Salmon" (no earlier line qualifies as a today header)
\* yields fishItems holding that line and dayDetection "high".
C4_TuesdaySalmonFirstHeader ==
  ( /\ Done
    /\ today = 2
    /\ \E i \in SalmonLines :
         \A j \in 1..(i - 1) : ~IsTodayHeader(PageLines[j], dayPatterns[2]) )
  => /\ InSeq(TuesdaySalmon, result.fishItems)
     /\ DayDetection = "high"

\* C4 witness: the salmon line is found below a line that names Tuesday but is
\* no header, and above a later Tuesday header
C4_Witness ==
  /\ Done
  /\ today = 2
  /\ Len(PageLines) = 3
  /\ PageLines[2] = TuesdaySalmon
  /\ DaysOfLine(PageLines[1]) = {2} /\ ~IsTodayHeader(PageLines[1], dayPatterns[2])
  /\ IsTodayHeader(PageLines[3], dayPatterns[2]) /\ PageLines[3] # TuesdaySalmon
  /\ InSeq(TuesdaySalmon, result.fishItems)
  /\ DayDetection = "high"

\* C5 as stated: a page that names exactly one day of the week is located by
\* the single-day-header strategy whatever today is, from that day's line on.
C5_SingleDayWhateverToday ==
  (Done /\ NamesOneDay) =>
    /\ section.success
    /\ Method = "single-day-header"
    /\ splitLines(section.text)[1] = PageLines[Min(DayLines)]

\* C5 amended: a page that names exactly one day of the week is located by the
\* single-day-header strategy, from the first line naming that day on, for
\* every today for which no line qualifies as a today day-header, provided the
\* page holds no date string of yesterday, today or tomorrow.
C5_SingleDayUnlessHeaderOrDate ==
  (Done /\ NamesOneDay /\ ~HasTodayHeader /\ ~HasWindowDate) =>
    /\ section.success
    /\ Method = "single-day-header"
    /\ splitLines(section.text)[1] = PageLines[Min(DayLines)]

\* C5 witness: the one named day is not today, and two different lines name it
C5_Witness ==
  /\ Done
  /\ NamesOneDay
  /\ today \notin MentionedDays
  /\ Cardinality(DayLines) > 1
  /\ PageLines[Min(DayLines)] # PageLines[Max(DayLines)]
  /\ Method = "single-day-header"

\* C6 as stated: the date-match strategy answers only for a date string of
\* today's exact calendar date.
C6_DateMatchExactDateOnly ==
  (Done /\ Method = "date-match") => ContainsDateOf(text, todayDate)

\* C6 amended: the date-match strategy answers exactly when no line qualifies
\* as a today day-header and the page holds a date string of yesterday, today
\* or tomorrow; a date string of any other day alone never yields date-match.
C6_DateMatchWithinOneDay ==
  Done => (Method = "date-match" <=> (~HasTodayHeader /\ HasWindowDate))

\* C6 witness: date-match on yesterday's date string alone, across a month end
C6_Witness ==
  /\ Done
  /\ Method = "date-match"
  /\ ~ContainsDateOf(text, todayDate)
  /\ ~ContainsDateOf(text, AddDays(todayDate, 1))
  /\ ContainsDateOf(text, AddDays(todayDate, -1))
  /\ todayDate.month # AddDays(todayDate, -1).month

\* C7: a failed locator result has method "unknown" and the whole input as its
\* text; a successful one names one of the four strategies.
C7_FailureKeepsInput ==
  Done =>
    /\ ~section.success => (Method = "unknown" /\ section.text = text)
    /\ section.success =>
         Method \in {"day-header", "date-match", "single-day-header", "day-inline"}

\* C7 witness: a failure on a page of several lines with surrounding blanks
C7_Witness ==
  /\ Done
  /\ ~section.success
  /\ Len(PageLines) > 1
  /\ joinLines(PageLines) # text

\* C8: when the locator succeeds, the located section has no match and the
\* full page has one, the result is the full-page matches with confidence
\* low / full-page-fallback.
C8_FullPageFallback ==
  ( /\ Done
    /\ section.success
    /\ searchForFish(section.text) = <<>>
    /\ searchForFish(text) # <<>> )
  => /\ pageScan = Scanned(searchForFish(text))
     /\ result = [fishItems |-> searchForFish(text),
                  confidence |-> Confidence("low", "full-page-fallback")]

\* C8 witness: a fallback answer taken from outside the located section
C8_Witness ==
  /\ Done
  /\ section.success
  /\ sectionScan = Scanned(<<>>)
  /\ result.fishItems # <<>>
  /\ result.confidence.method = "full-page-fallback"

\* C9: when the locator succeeds and neither the located section nor the full
\* page has a match, the result is no items with confidence high and the
\* locator's method.
C9_NothingFoundIsConfident ==
  ( /\ Done
    /\ section.success
    /\ searchForFish(section.text) = <<>>
    /\ searchForFish(text) = <<>> )
  => result = [fishItems |-> <<>>, confidence |-> Confidence("high", section.method)]

\* C9 witness: both scans ran and found nothing
C9_Witness ==
  /\ Done
  /\ section.success
  /\ sectionScan = Scanned(<<>>) /\ pageScan = Scanned(<<>>)
  /\ result.fishItems = <<>>

\* C10: when the locator fails, the result is the scan of the full page with
\* confidence low / full-page, whatever the scan found.
C10_LocatorFailureIsFullPage ==
  (Done /\ ~section.success) =>
    /\ result.confidence = Confidence("low", "full-page")
    /\ result.fishItems = searchForFish(text)

\* C10 witness: the locator failed and the full-page scan found an item
C10_Witness ==
  /\ Done
  /\ ~section.success
  /\ result.fishItems # <<>>
  /\ result.confidence.method = "full-page"

-----------------------------------------------------------------------------
(* The scanner on its own *)

ScanItems == pageScan.items
ScannedLines == splitLines(text)
\* trimmed, white-space runs collapsed to one blank, cut to MaxItemLength
NormalForm(line) == cleanLine(trim(line))
\* the first line of the scanned text whose normal form is the item (0 if none)
FirstLineOf(item) ==
  LET at == {k \in 1..Len(ScannedLines) : NormalForm(ScannedLines[k]) = item}
  IN  IF at = {} THEN 0 ELSE Min(at)
\* the line is long enough, is not address-like and holds a fish keyword
Qualifies(line) ==
  /\ Len(trim(line)) >= MinLineLength
  /\ ~isAddressLikeLine(trim(line))
  /\ containsKeyword(toLowerCase(trim(line)), FISH_KEYWORDS)
QualifyingLines == {k \in 1..Len(ScannedLines) : Qualifies(ScannedLines[k])}
\* the language of the lines whose normal form is the item
LanguagesOf(item) ==
  {detectLineLanguage(toLowerCase(trim(ScannedLines[k]))) :
     k \in {j \in QualifyingLines : NormalForm(ScannedLines[j]) = item}}

\* C11: searchForFish returns at most 5 strings, each of at most 200
\* characters, pairwise distinct, in the order of their first appearance in
\* the text, each the normal form (trimmed, white-space runs collapsed to one
\* blank, cut to 200 characters) of a line of the scanned text.
C11_ScanOutputShape ==
  Done =>
    /\ Len(ScanItems) <= 5
    /\ \A i \in 1..Len(ScanItems) :
         /\ Len(ScanItems[i]) <= 200
         /\ FirstLineOf(ScanItems[i]) # 0
         /\ \A p \in 1..Len(ScanItems[i]) :
              IsSpace(CharAt(ScanItems[i], p)) => CharAt(ScanItems[i], p) = " "
         /\ ~includes(ScanItems[i], "  ")
         /\ CharAt(ScanItems[i], 1) # " "
    /\ \A i, j \in 1..Len(ScanItems) :
         i < j => /\ ScanItems[i] # ScanItems[j]
                  /\ FirstLineOf(ScanItems[i]) < FirstLineOf(ScanItems[j])

\* a scan that met more qualifying lines than it may return, a duplicate and
\* a line that had to be cut
C11_Witness ==
  /\ Done
  /\ Len(ScanItems) = 5
  /\ \E k \in QualifyingLines : ~InSeq(NormalForm(ScannedLines[k]), ScanItems)
  /\ \E i, j \in QualifyingLines :
       i < j /\ NormalForm(ScannedLines[i]) = NormalForm(ScannedLines[j])
  /\ \E i \in 1..Len(ScanItems) :
       Len(ScanItems[i]) = 200 /\ Len(ScannedLines[FirstLineOf(ScanItems[i])]) > 200

LineLanguage(k) == detectLineLanguage(toLowerCase(trim(ScannedLines[k])))
\* what the scan sees of the scanned text: the normal form of every line, the
\* qualifying lines and their languages
ScanDigest ==
  [norm |-> [k \in 1..Len(ScannedLines) |-> NormalForm(ScannedLines[k])],
   lang |-> [k \in QualifyingLines |-> LineLanguage(k)]]
Qualifying(d) == DOMAIN d.lang
EnglishLines(d) == {k \in Qualifying(d) : d.lang[k] = "en"}
\* the distinct normal forms the scan has collected when it comes to line k
CollectedBefore(d, k) == {d.norm[j] : j \in {q \in Qualifying(d) : q < k}}
\* the scan comes to line k and adds it to its list
IsCollected(d, k) ==
  /\ k \in Qualifying(d)
  /\ Cardinality(CollectedBefore(d, k)) < MaxItems
  /\ d.norm[k] \notin CollectedBefore(d, k)
\* the items are English lines, and there is one
OnlyEnglishItems(d) ==
  /\ Len(ScanItems) > 0
  /\ \A i \in 1..Len(ScanItems) :
       {d.lang[k] : k \in {j \in Qualifying(d) : d.norm[j] = ScanItems[i]}} = {"en"}

\* C12 as stated: whenever the scanned text has a qualifying line with an
\* English keyword, searchForFish returns English lines only, however many
\* Finnish lines precede it.
C12_EnglishWhereverItStands ==
  Done => LET d == ScanDigest
          IN  EnglishLines(d) # {} => OnlyEnglishItems(d)

\* C12, amended: searchForFish returns English lines only, and all of the
\* English lines it collected, exactly when a qualifying English line is
\* collected, that is when fewer than 5 distinct matching lines precede it;
\* otherwise it returns every line it collected.
C12_EnglishWhenCollected ==
  Done =>
    LET d == ScanDigest
    IN  IF \E k \in EnglishLines(d) : IsCollected(d, k)
        THEN /\ OnlyEnglishItems(d)
             /\ \A k \in EnglishLines(d) :
                  IsCollected(d, k) => InSeq(d.norm[k], ScanItems)
        ELSE \A k \in Qualifying(d) :
               IsCollected(d, k) => InSeq(d.norm[k], ScanItems)

\* Finnish lines were collected before an English one, and only the English
\* line is returned
C12_Witness ==
  /\ Done
  /\ Len(ScanItems) = 1
  /\ LET d == ScanDigest
     IN  \E k \in EnglishLines(d) :
           /\ IsCollected(d, k)
           /\ Cardinality({j \in Qualifying(d) : j < k /\ d.lang[j] = "fi"}) >= 2

-----------------------------------------------------------------------------
(* The Line Filter *)

\* the lines of the page the Line Filter or the length test discard
IsNoise(line) == isAddressLikeLine(trim(line))
IsShort(line) == Len(trim(line)) < MinLineLength
\* every item of the scans findFishInText made and of its result
ReportedItems ==
  {sectionScan.items[i] : i \in 1..Len(sectionScan.items)}
    \cup {pageScan.items[i] : i \in 1..Len(pageScan.items)}
    \cup {result.fishItems[i] : i \in 1..Len(result.fishItems)}

\* C13: a line isAddressLikeLine classifies as noise, such as 'Lohikeitto,
\* Mannerheimintie 12', never appears in the items of searchForFish or of
\* findFishInText although it holds a fish keyword, and neither does a line
\* of fewer than 5 characters.
C13_NoiseNeverReported ==
  Done =>
    /\ AddressLine \notin ReportedItems
    /\ \A k \in 1..Len(ScannedLines) :
         (IsNoise(ScannedLines[k]) \/ IsShort(ScannedLines[k]))
           => NormalForm(ScannedLines[k]) \notin ReportedItems

\* today's section holds the address line next to a fish dish: only the dish
\* is reported
C13_Witness ==
  /\ Done
  /\ section.success
  /\ includes(section.text, AddressLine)
  /\ result.fishItems = <<"Grilled Salmon">>

-----------------------------------------------------------------------------
(* The run of the background worker *)

\* in run m the check of restaurant r has been started; it has completed
Started(m, r) == r < current[m] \/ (r = current[m] /\ runPc[m] = "checking")
Completed(m, r) == runPc[m] # "idle" /\ r < current[m]
EnabledRestaurants == {r \in Restaurants : enabled[r]}
\* the enabled restaurants among the first n, in configuration order
RECURSIVE EnabledUpTo(_)
EnabledUpTo(n) ==
  IF n = 0 THEN <<>>
  ELSE EnabledUpTo(n - 1) \o (IF enabled[n] THEN <<n>> ELSE <<>>)
IsErrorRecord(rec) == ~rec.error.null

\* C14: within one checkAllRestaurantMenus run every restaurant is judged
\* against one and the same day-of-week and date, even if the clock passes
\* midnight during the run, and the day-of-week and the date one
\* extractTodaySection call uses denote the same day.
C14_OneDayIdentityPerRun ==
  \A m \in Runs :
    /\ Cardinality(judged[m]) <= 1
    /\ \A identity \in judged[m] : identity.dayOfWeek = getDay(identity.date)

\* C15: checkAllRestaurantMenus returns exactly one record per enabled
\* restaurant, in configuration order, and none for a disabled one; a failed
\* check gives a record with hasFish = false, fishItems = [] and a non-empty
\* error message, and the later restaurants are still checked and reported.
C15_OneRecordPerEnabledRestaurant ==
  /\ [] (\A m \in Runs : runPc[m] # "idle" =>
           LET done == EnabledUpTo(current[m] - 1)
           IN  /\ Len(results[m]) = Len(done)
               /\ \A i \in 1..Len(results[m]) :
                    /\ results[m][i].name = RESTAURANTS[done[i]].name
                    /\ results[m][i].url = RESTAURANTS[done[i]].url
                    /\ IsErrorRecord(results[m][i]) =>
                         /\ results[m][i].hasFish = FALSE
                         /\ results[m][i].fishItems = <<>>
                         /\ results[m][i].error.message # ""
               /\ runPc[m] = "returned" => current[m] = NumRestaurants + 1)
  /\ [][ \A m \in Runs :
         /\ (checkPc[m] # "none" /\ checkPc'[m] = "none") =>
              /\ Len(results'[m]) = Len(results[m]) + 1
              /\ results'[m][Len(results'[m])].name = RESTAURANTS[current[m]].name
              /\ current'[m] = current[m] + 1 /\ runPc'[m] = "loop"
         /\ (checkPc[m] = "fetching" /\ checkPc'[m] = "none") =>
              IsErrorRecord(results'[m][Len(results'[m])])
         /\ (runPc[m] = "loop" /\ runPc'[m] = "returned") => current[m] > NumRestaurants
       ]_vars

\* a run returned with a restaurant disabled, and with a failed check followed
\* by a check that found fish
C15_Witness ==
  \E m \in Runs :
    /\ runPc[m] = "returned"
    /\ \E r \in Restaurants : ~enabled[r]
    /\ \E i \in 1..(Len(results[m]) - 1) :
         IsErrorRecord(results[m][i]) /\ results[m][i + 1].hasFish

\* C16: once chrome.tabs.create has succeeded in fetchRenderedPageText,
\* chrome.tabs.remove for that tab is invoked exactly once before the call
\* settles, on every path (early exit, all attempts used, page-load timeout,
\* script failure), and no hidden tab created by a check outlives that check.
C16_TabNeverOutlivesCall ==
  \A m \in Runs :
    /\ removeCalls[m] <= 1
    /\ (renderPc[m] = "settled" /\ tab[m] # "none") => (removeCalls[m] = 1 /\ tab[m] = "closed")

\* C20: the enabled restaurants are checked in parallel, as independent tasks
\* with no ordering dependency: no check waits for another to complete, so
\* by the time a check has completed the fetch of every enabled restaurant
\* has been issued.
C20_NoCheckWaitsForAnother ==
  \A m \in Runs :
    (\E r \in EnabledRestaurants : Completed(m, r)) =>
       \A r \in EnabledRestaurants : Started(m, r)

-----------------------------------------------------------------------------
(* Absent text *)

\* C17: findFishInText called with absent text (null or undefined) treats it
\* as the empty string and returns an empty fishItems list without throwing.
C17_AbsentTextIsEmptyText ==
  (textType # "string" /\ pc # "idle") =>
     /\ pc = "done"
     /\ result.fishItems = <<>>

-----------------------------------------------------------------------------
(* Repeated calls *)

SameInput(a, b) == a.text = b.text /\ a.dayOfWeek = b.dayOfWeek /\ a.date = b.date

\* what findFishInText returns for the pages of the repeated calls, written
\* out: the Tuesday and Wednesday lines under their headers, nothing under
\* the lone header 'Tiistai:' (found as today's header on a Tuesday, as the
\* only day header on a Wednesday), and the soup of 29.2. as a date match
\* when the date read is the 28th or the 29th, from the whole page when it
\* is the 27th
Found(items, dayDetection, method) ==
  [fishItems |-> items, confidence |-> [dayDetection |-> dayDetection, method |-> method]]
ExpectedResult(call) ==
  CASE call.text = "Tuesday: Grilled Salmon\nWednesday: Fish Soup" /\ call.dayOfWeek = 2 ->
         Found(<<"Tuesday: Grilled Salmon">>, "high", "day-header")
    [] call.text = "Tuesday: Grilled Salmon\nWednesday: Fish Soup" /\ call.dayOfWeek = 3 ->
         Found(<<"Wednesday: Fish Soup">>, "high", "day-header")
    [] call.text = "Tiistai:" /\ call.dayOfWeek = 2 ->
         Found(<<>>, "high", "day-header")
    [] call.text = "Tiistai:" /\ call.dayOfWeek = 3 ->
         Found(<<>>, "high", "single-day-header")
    [] call.text = "29.2. Lohikeitto" /\ call.date.day = 27 ->
         Found(<<"29.2. Lohikeitto">>, "low", "full-page")
    [] call.text = "29.2. Lohikeitto" /\ call.date.day \in {28, 29} ->
         Found(<<"29.2. Lohikeitto">>, "high", "date-match")

\* C18: findFishInText is deterministic and stateless: two invocations with
\* the same page text and the same day-of-week and date return identical
\* fishItems and confidence, whatever was invoked earlier on other inputs:
\* every call of a sequence returns what its input alone determines.
C18_SameInputSameResult ==
  /\ \A i \in 1..Len(history) : history[i].result = ExpectedResult(history[i])
  /\ \A i, j \in 1..Len(history) :
       SameInput(history[i], history[j]) => history[i].result = history[j].result

\* the same input was given twice, with a call on another page in between
\* that found other fish
C18_Witness ==
  /\ Len(history) = 3
  /\ SameInput(history[1], history[3])
  /\ history[2].text # history[1].text
  /\ Len(history[1].result.fishItems) > 0
  /\ Len(history[2].result.fishItems) > 0
  /\ history[2].result.fishItems # history[1].result.fishItems

-----------------------------------------------------------------------------
(* The date window *)

PatternSet(seq) == {seq[i] : i \in 1..Len(seq)}
NoDuplicates(seq) ==
  \A i, j \in 1..Len(seq) : seq[i] = seq[j] => i = j

\* the calendar, written down on its own: the days of each month
MonthLengths(y) ==
  << 31, IF (y % 4 = 0 /\ y % 100 # 0) \/ y % 400 = 0 THEN 29 ELSE 28, 31, 30,
     31, 30, 31, 31, 30, 31, 30, 31 >>
CalendarDays ==
  {d \in [year : 2022..2025, month : 1..12, day : 1..31] :
     d.day <= MonthLengths(d.year)[d.month]}
\* the calendar days at most w days from a date
DaysAround(date, w) ==
  {d \in CalendarDays : DaysFromCivil(d) - DaysFromCivil(date) \in (0 - w)..w}

\* the date strings of 2024-02-03 and of 2024-02-05
StringsOfThird ==
  {"2024-02-03", "03.02.2024", "3.2.2024", "03/02/2024", "3/2/2024",
   "03.02", "3.2", "03.02.", "3.2.", "03/02", "3/2"}
StringsOfFifth ==
  {"2024-02-05", "05.02.2024", "5.2.2024", "05/02/2024", "5/2/2024",
   "05.02", "5.2", "05.02.", "5.2.", "05/02", "5/2"}
FourthOfFebruary == [year |-> 2024, month |-> 2, day |-> 4]

\* C19: for every date d and window w >= 0, getDatePatternsForWindow(d, w)
\* holds no string twice and is, as a set, the union of getDatePatterns(d')
\* over every calendar day d' in [d - w, d + w], months and years rolling
\* over as the calendar does; with w = 1 around 2024-02-04 it holds the date
\* strings of 2024-02-03 and 2024-02-05.
C19_WindowIsUnionOfDays ==
  windowPatterns # NoPatterns =>
    /\ NoDuplicates(windowPatterns)
    /\ PatternSet(windowPatterns) =
         UNION {PatternSet(getDatePatterns(d)) : d \in DaysAround(clock, dateWindow)}
    /\ (clock = FourthOfFebruary /\ dateWindow = 1) =>
         (StringsOfThird \cup StringsOfFifth) \subseteq PatternSet(windowPatterns)

\* a window across the year end, around a day whose padded and unpadded
\* forms coincide
C19_Witness ==
  /\ windowPatterns # NoPatterns
  /\ clock = [year |-> 2023, month |-> 12, day |-> 31]
  /\ dateWindow = 2
  /\ \E i \in 1..Len(windowPatterns) : windowPatterns[i] = "2.1.2024"
  /\ \E i \in 1..Len(windowPatterns) : windowPatterns[i] = "29.12.2023"
  /\ Len(getDatePatterns(clock)) > Cardinality(PatternSet(getDatePatterns(clock)))

-----------------------------------------------------------------------------
(* The day-header section *)

NamesToday(line) == HasAnyDayPattern(toLowerCase(line), dayPatterns[today])
NamesAnotherDay(line) == DaysOfLine(line) \ {today} # {}
SaysTomorrowOrNext(line) ==
  includes(toLowerCase(line), "tomorrow") \/ includes(toLowerCase(line), "next")

\* the lines that may open the section, and the line that does
OpeningLines == {i \in 1..Len(PageLines) :
                   NamesToday(PageLines[i]) /\ ~SaysTomorrowOrNext(PageLines[i])}
FirstOpening == Min(OpeningLines)
\* the lines after the opening one that name another day and not today
ClosingLines == {j \in (FirstOpening + 1)..Len(PageLines) :
                   NamesAnotherDay(PageLines[j]) /\ ~NamesToday(PageLines[j])}
\* the last line of the section
LastOfSection ==
  Min({Len(PageLines), FirstOpening + SectionCap} \cup {j - 1 : j \in ClosingLines})

\* C21: in the day-header strategy the section starts at the first line that
\* holds one of today's day patterns and neither 'tomorrow' nor 'next'; the
\* lines after it follow in order up to, and without, the first line that
\* names another day and not today, or until 30 lines have followed; a line
\* naming both another day and today does not end the section.
C21_DayHeaderSection ==
  (Done /\ OpeningLines # {}) =>
     /\ Method = "day-header"
     /\ splitLines(section.text) = SubSeq(PageLines, FirstOpening, LastOfSection)

\* a line naming Tuesday with 'next' stands above the header, a line naming
\* Tuesday and Wednesday follows it, and more than 30 lines follow the header
C21_Witness ==
  /\ Done /\ Method = "day-header"
  /\ FirstOpening = 2
  /\ Len(PageLines) > FirstOpening + SectionCap
  /\ NamesToday(PageLines[1])
  /\ NamesToday(PageLines[4]) /\ NamesAnotherDay(PageLines[4])
  /\ Len(splitLines(section.text)) = SectionCap + 1

-----------------------------------------------------------------------------
(* Static and rendered extraction *)

\* the last record of run m
LastRecord(m) == results[m][Len(results[m])]
\* the record of the current restaurant of run m that holds the static result
StaticRecordOf(m, static) ==
  [name |-> RESTAURANTS[current[m]].name, url |-> RESTAURANTS[current[m]].url,
   hasFish |-> static.fishItems # <<>>, fishItems |-> static.fishItems,
   confidence |-> static.confidence, error |-> [null |-> TRUE, message |-> ""]]
\* a step in which the body of the response arrives in run m and is searched
BodyIsRead(m) ==
  /\ checkPc[m] = "reading"
  /\ \/ checkPc'[m] = "rendering"
     \/ Len(results'[m]) > Len(results[m]) /\ results'[m][Len(results'[m])].error.null

\* C22: checkRestaurantMenu calls fetchRenderedPageText if and only if the
\* static scan returned no fishItems and the html looks like a SPA; when the
\* static scan found an item no hidden tab is created and the static result
\* is returned, whether or not the page looks dynamic.
C22_RendersIffEmptyAndDynamic ==
  /\ [](\A m \in Runs :
          renderPc[m] # "none" => (staticResult[m].fishItems = <<>> /\ html[m].spa))
  /\ [][\A m \in Runs : BodyIsRead(m) =>
          /\ (renderPc'[m] = "creating") <=> (staticResult'[m].fishItems = <<>> /\ html'[m].spa)
          /\ staticResult'[m].fishItems # <<>> =>
               /\ renderPc'[m] = "none" /\ tab'[m] = tab[m]
               /\ results'[m][Len(results'[m])] = StaticRecordOf(m, staticResult'[m])]_vars

\* the static scan of a page that looks like a SPA found fish: its result is
\* the record, and no tab was created
C22_Witness ==
  \E m \in Runs :
  /\ runPc[m] = "loop" /\ Len(results[m]) = 1
  /\ html[m].spa /\ staticResult[m].fishItems # <<>>
  /\ LastRecord(m).error.null /\ LastRecord(m).fishItems = staticResult[m].fishItems
  /\ tab[m] = "none" /\ removeCalls[m] = 0

\* C23: when the rendered extraction fails after the escalation (page-load
\* timeout, tab creation or script execution error) checkRestaurantMenu does
\* not throw and makes no error record: it returns the record of the static
\* result (its hasFish, fishItems and confidence) with error = null.
C23_RenderFailureFallsBack ==
  [][\A m \in Runs :
     (checkPc[m] = "rendering" /\ renderPc[m] = "settled" /\ rendered[m].state = "error"
        /\ checkPc'[m] # "rendering") =>
       /\ Len(results'[m]) = Len(results[m]) + 1
       /\ results'[m][Len(results'[m])] = StaticRecordOf(m, staticResult[m])]_vars

\* the tab of a page whose static scan located today's section could not be
\* created: the record holds the static confidence and no error
C23_Witness ==
  \E m \in Runs :
  /\ runPc[m] = "loop" /\ Len(results[m]) = 1
  /\ html[m].text = SaladMenu /\ html[m].spa
  /\ tab[m] = "none"
  /\ LastRecord(m).error.null /\ ~LastRecord(m).hasFish
  /\ LastRecord(m).confidence = [dayDetection |-> "high", method |-> "day-header"]

\* C24: fetchRenderedPageText runs the text-extraction script at most 3
\* times per call, each time after a settle delay; it returns at once the
\* text of the first attempt that is at least 300 characters long, and
\* otherwise the text of the last attempt, which may be empty.
C24_AtMostThreeAttempts ==
  /\ [](\A m \in Runs : renderPc[m] = "executing" => attempt[m] \in 0..2)
  /\ [](\A m \in Runs : renderPc[m] \in {"delaying", "executing"} => Len(lastText[m]) < 300)
  /\ [](\A m \in Runs : rendered[m].state = "value" =>
          /\ rendered[m].text = lastText[m]
          /\ Len(lastText[m]) >= 300 \/ attempt[m] = 3)
  /\ [][\A m \in Runs :
          renderPc'[m] = "executing" => renderPc[m] \in {"delaying", "executing"}]_vars
  /\ [][\A m \in Runs :
          (renderPc[m] = "executing" /\ renderPc'[m] = "delaying") => attempt'[m] = attempt[m] + 1]_vars
  /\ [][\A m \in Runs :
          (renderPc[m] = "executing" /\ renderPc'[m] = "closing" /\ rendered'[m].state = "value")
          => (rendered'[m].text = lastText'[m] /\ (Len(lastText'[m]) >= 300 \/ attempt[m] = 2))]_vars

\* three short texts: the call returns the last one
C24_Witness ==
  \E m \in Runs :
  /\ renderPc[m] = "settled"
  /\ rendered[m] = [state |-> "value", text |-> ShortText]
  /\ attempt[m] = 3

\* C28: every record of checkAllRestaurantMenus has hasFish = (fishItems is
\* not empty); a record with an error has hasFish = false, fishItems = [] and
\* no confidence; a record with error = null carries a confidence.
C28_RecordShape ==
  \A m \in Runs : \A i \in 1..Len(results[m]) :
     /\ results[m][i].hasFish = (results[m][i].fishItems # <<>>)
     /\ ~results[m][i].error.null =>
          /\ ~results[m][i].hasFish
          /\ results[m][i].fishItems = <<>>
          /\ "confidence" \notin DOMAIN results[m][i]
     /\ results[m][i].error.null =>
          /\ "confidence" \in DOMAIN results[m][i]
          /\ DOMAIN results[m][i].confidence = {"dayDetection", "method"}

\* a run returned a record with fish, one without and one with an error
C28_Witness ==
  \E m \in Runs :
  /\ runPc[m] = "returned"
  /\ \E i, j, k \in 1..Len(results[m]) :
       /\ results[m][i].error.null /\ results[m][i].hasFish
       /\ results[m][j].error.null /\ ~results[m][j].hasFish
       /\ ~results[m][k].error.null

-----------------------------------------------------------------------------
(* The inline day name *)

TodayLines == {i \in 1..Len(PageLines) : NamesToday(PageLines[i])}
\* the page line that holds the character at a 0-based index of the text
LineOfIndex(idx) == 1 + Cardinality({p \in 1..idx : CharAt(text, p) = "\n"})
\* the line on which the day-inline window is anchored
AnchorLine == LineOfIndex(findDayPatternIndex(toLowerCase(text), dayPatterns[today]))

\* C25: extractTodaySection returns method 'day-inline' only for texts in
\* which every line holding one of today's day patterns also holds 'tomorrow'
\* or 'next', and which mention another day as well: the window is anchored
\* on a line that the tomorrow/next guard of the day-header strategy rejected.
C25_InlineOnlyAfterGuard ==
  (Done /\ Method = "day-inline") =>
     /\ TodayLines # {}
     /\ \A i \in TodayLines : SaysTomorrowOrNext(PageLines[i])
     /\ MentionedDays \ {today} # {}
     /\ AnchorLine \in TodayLines

\* a page with 'Next Tue.' and a Wednesday dish, on a Tuesday: the window
\* around the inline day name holds the fish of Wednesday
C25_Witness ==
  /\ Done /\ Method = "day-inline"
  /\ today = 2
  /\ AnchorLine = 2
  /\ result.fishItems # <<>>
  /\ DayDetection = "high"

-----------------------------------------------------------------------------
(* The confidence returned *)

ReportedMethods ==
  {"day-header", "date-match", "single-day-header", "day-inline",
   "full-page-fallback", "full-page"}

\* C27: the confidence returned by findFishInText has a method among
\* day-header, date-match, single-day-header, day-inline, full-page-fallback
\* and full-page, never 'unknown'; dayDetection is 'low' exactly when the
\* method is 'full-page' or 'full-page-fallback'; and 'full-page-fallback'
\* comes with fishItems that are not empty.
C27_ConfidenceShape ==
  Done =>
    /\ result.confidence.method \in ReportedMethods
    /\ result.confidence.dayDetection \in {"high", "low"}
    /\ (result.confidence.dayDetection = "low") <=>
         (result.confidence.method \in {"full-page", "full-page-fallback"})
    /\ result.confidence.method = "full-page-fallback" => result.fishItems # <<>>

\* the locator found a section by its single day header, the fish was
\* elsewhere on the page
C27_Witness ==
  /\ Done
  /\ section.method = "single-day-header"
  /\ result.confidence = [dayDetection |-> "low", method |-> "full-page-fallback"]
  /\ result.fishItems # <<>>

-----------------------------------------------------------------------------
(* Items and the lines of the page *)

RawPageLines == splitLines(text)
SectionLines == splitLines(section.text)
WindowMethods == {"date-match", "day-inline"}
\* the text findFishInText took the items from
ScannedText == IF DayDetection = "high" THEN section.text ELSE text
\* every item is the normal form of a complete line of t
ItemsAreLinesOf(t) ==
  \A k \in 1..Len(result.fishItems) :
    \E i \in 1..Len(splitLines(t)) : result.fishItems[k] = NormalForm(splitLines(t)[i])
IsPrefixOf(a, b) == Len(a) <= Len(b) /\ SubSeq(b, 1, Len(a)) = a
IsSuffixOf(a, b) == Len(a) <= Len(b) /\ SubSeq(b, Len(b) - Len(a) + 1, Len(b)) = a
\* the lines of a window are lines of the page, but the first may lack its
\* beginning and the last its end
WindowCutsOnlyItsEnds ==
  /\ \A i \in 2..(Len(SectionLines) - 1) :
       \E j \in 1..Len(RawPageLines) : SectionLines[i] = RawPageLines[j]
  /\ Len(SectionLines) > 1 =>
       /\ \E j \in 1..Len(RawPageLines) : IsSuffixOf(SectionLines[1], RawPageLines[j])
       /\ \E j \in 1..Len(RawPageLines) :
            IsPrefixOf(SectionLines[Len(SectionLines)], RawPageLines[j])
  /\ Len(SectionLines) = 1 =>
       \E j \in 1..Len(RawPageLines) : includes(RawPageLines[j], SectionLines[1])

\* C26 as stated: every string of the fishItems returned by findFishInText is
\* the normalized form of a complete line of the full page text, for every
\* method, 'date-match' and 'day-inline' with their character windows included.
C26_ItemsAreCompletePageLines ==
  Done => ItemsAreLinesOf(text)

\* C26 amended: every string of fishItems is the normalized form of a
\* complete line of the text that was scanned, the located section when
\* dayDetection is high and the full page when it is low.  That is a complete
\* line of the page for every method but 'date-match' and 'day-inline': their
\* section is a character window, whose first line may lack the beginning and
\* whose last line may lack the end of the page line it is cut from.
C26_ItemsAreLinesOfScannedText ==
  Done =>
    /\ ItemsAreLinesOf(ScannedText)
    /\ (Method \notin WindowMethods \/ DayDetection = "low") => ItemsAreLinesOf(text)
    /\ Method \in WindowMethods => WindowCutsOnlyItsEnds

\* the window around an inline day name opens inside a dish line: the item is
\* what is left of that line
C26_Witness ==
  /\ Done /\ Method = "day-inline" /\ DayDetection = "high"
  /\ result.fishItems # <<>>
  /\ ~ItemsAreLinesOf(text)
  /\ \E j \in 1..Len(RawPageLines) :
       /\ IsSuffixOf(SectionLines[1], RawPageLines[j])
       /\ SectionLines[1] # RawPageLines[j]
       /\ result.fishItems[1] = NormalForm(SectionLines[1])

-----------------------------------------------------------------------------
(* Waiting for the tab *)

Settled == waitPc \in {"resolved", "rejected"}
\* onUpdated was run for a 'complete' update of the tab of the call
OwnCompleteHeard ==
  \E i \in 1..Len(updateLog) :
    updateLog[i] = [tab |-> "own", status |-> "complete", heard |-> TRUE]

\* C30 as stated: waitForTabComplete settles exactly once within timeoutMs,
\* resolved by a 'complete' update of its own tab or rejected by the timeout,
\* with the listener removed and the timer cleared when it settles: no call
\* is pending, and none settles, after timeoutMs has passed.
C30_SettlesWithinTimeout ==
  /\ settleCalls <= 1 /\ (Settled <=> settleCalls = 1)
  /\ Settled => (~listening /\ timer \in {"cleared", "fired"}
                   /\ settledAt <= TimeoutTicks)
  /\ waitPc = "waiting" => elapsed <= TimeoutTicks

\* C30: waitForTabComplete settles exactly once, at the latest when its
\* timeout callback runs, which is at timeoutMs or after it: it resolves on a
\* 'complete' status update for its own tabId, or rejects with 'Page load
\* timeout' and never before timeoutMs; under every interleaving of the
\* timeout and the tab updates (updates of other tabs, a 'complete' update
\* before the listener is registered, one after timeoutMs) the listener is
\* removed and the timer cleared when it settles.
C30_SettlesOnceAndCleansUp ==
  /\ [](settleCalls <= 1 /\ (Settled <=> settleCalls = 1))
  /\ [](Settled => (~listening /\ timer \in {"cleared", "fired"}))
  /\ [](waitPc = "waiting" =>
          (listening /\ timer = "armed" /\ settledAt = -1 /\ ~OwnCompleteHeard))
  /\ [](waitPc = "resolved" => (OwnCompleteHeard /\ timer = "cleared"))
  /\ [](waitPc = "rejected" =>
          (~OwnCompleteHeard /\ timer = "fired" /\ settledAt >= TimeoutTicks))
  /\ (waitPc = "waiting" ~> Settled)

\* the tab was complete before the listener was registered, another tab
\* completed while it was, the timeout passed with the callback still to
\* run, and then the tab completed again: the call was resolved after the
\* timeout and the timer cleared
C30_Witness ==
  /\ waitPc = "resolved" /\ settleCalls = 1 /\ ~listening /\ timer = "cleared"
  /\ settledAt > TimeoutTicks
  /\ Len(updateLog) >= 3
  /\ updateLog[1] = [tab |-> "own", status |-> "complete", heard |-> FALSE]
  /\ \E i \in 2..Len(updateLog) :
       updateLog[i] = [tab |-> "other", status |-> "complete", heard |-> TRUE]

-----------------------------------------------------------------------------
(* The answer to the message *)

\* the messages a specification may hand to the listener, by their order
MessageIds == DOMAIN MessagesSent

\* the m-th 'checkMenus' message has been received; sendResponse has been
\* called for it
Received(m) == m \in Runs
Answered(m) == m \in Runs /\ runPc[m] = "returned"

\* C29: every 'checkMenus' message received by the background worker is
\* eventually answered with one sendResponse call, assuming only that timers
\* fire: a restaurant whose static fetch never settles, or whose hidden tab
\* never finishes loading, prevents neither the response nor the checks of
\* the restaurants after it.
C29_EveryMessageAnswered == \A m \in MessageIds : Received(m) ~> Answered(m)

====
